---- MODULE Spec2Model ----
(***************************************************************************)
(* Model of the terrain pipeline of babylon-game:                          *)
(*   - createNoise2DData   (src/src/utils/noise.ts)                        *)
(*   - createTerrain       (src/unnamed/part_003, the current app.ts)      *)
(*                                                                         *)
(* Numbers.  JavaScript numbers are modelled in fixed point with three     *)
(* decimal digits: the real r is the integer r * ONE.  The three IEEE      *)
(* values that are not finite are kept apart as NaN, Inf and NegInf, and   *)
(* the arithmetic operators below follow the IEEE rules for them           *)
(* (0/0 = NaN, x/0 = +-Inf, Inf - Inf = NaN, Inf * 0 = NaN, NaN absorbs).  *)
(* Counters, indices, seeds and octave counts are plain integers.          *)
(*                                                                         *)
(* Libraries.  alea and simplex-noise are not part of the repository.      *)
(* They are modelled by what the code relies on: alea(seed) is a seeded    *)
(* deterministic generator, createNoise2D(random) draws from it to build a *)
(* permutation table, and the noise function is a pure function of that    *)
(* table and the coordinates with values in [-1, 1].  Two behaviours of    *)
(* the libraries that their versions differ in are left open and fixed     *)
(* per run by aleaThrows and noiseNaN.                                     *)
(***************************************************************************)
EXTENDS Integers, Sequences, FiniteSets, TLC

\* ------------------------------------------------------------------ bounds

\* Largest width and height of a requested noise grid.
MaxDim == 2
\* Largest number of fields left out of one of the base configurations.
MaxOmitted == 1
\* Size of the permutation table of the noise function (256 in the library).
PermSize == 4
\* Lattice cells of the noise function per unit of its coordinates.
NoiseRes == 4
\* Largest vertexCount of a terrain.
MaxVertexCount == 3

\* ----------------------------------------------------------------- numbers

ONE == 10 * 10 * 10

NaN == 2000000001
Inf == 2000000002
NegInf == 2000000003

IsFinite(a) == a \notin {NaN, Inf, NegInf}

\* -1, 0 or 1; defined for the infinities, not for NaN.
Sgn(a) ==
  IF a = Inf THEN 1
  ELSE IF a = NegInf THEN -1
  ELSE IF a > 0 THEN 1
  ELSE IF a < 0 THEN -1
  ELSE 0

OfSign(s) == IF s > 0 THEN Inf ELSE IF s < 0 THEN NegInf ELSE NaN

FNeg(a) ==
  IF a = NaN THEN NaN
  ELSE IF a = Inf THEN NegInf
  ELSE IF a = NegInf THEN Inf
  ELSE 0 - a

FAbs(a) ==
  IF a = NaN THEN NaN
  ELSE IF a \in {Inf, NegInf} THEN Inf
  ELSE IF a < 0 THEN 0 - a ELSE a

FAdd(a, b) ==
  IF a = NaN \/ b = NaN THEN NaN
  ELSE IF IsFinite(a) /\ IsFinite(b) THEN a + b
  ELSE IF IsFinite(a) THEN b
  ELSE IF IsFinite(b) THEN a
  ELSE IF a = b THEN a ELSE NaN

FSub(a, b) == FAdd(a, FNeg(b))

\* Quotient rounded toward zero, for b # 0.
TruncDiv(a, b) ==
  LET q == (IF a < 0 THEN 0 - a ELSE a) \div (IF b < 0 THEN 0 - b ELSE b)
  IN IF Sgn(a) * Sgn(b) < 0 THEN 0 - q ELSE q

FMul(a, b) ==
  IF a = NaN \/ b = NaN THEN NaN
  ELSE IF IsFinite(a) /\ IsFinite(b) THEN TruncDiv(a * b, ONE)
  ELSE OfSign(Sgn(a) * Sgn(b))

FDiv(a, b) ==
  IF a = NaN \/ b = NaN THEN NaN
  ELSE IF IsFinite(a) /\ IsFinite(b)
    THEN IF b = 0 THEN OfSign(Sgn(a)) ELSE TruncDiv(a * ONE, b)
  ELSE IF IsFinite(b) THEN OfSign(Sgn(a) * (IF b < 0 THEN -1 ELSE 1))
  ELSE IF IsFinite(a) THEN 0
  ELSE NaN

\* a < b and a > b as JavaScript compares: false when either side is NaN.
FLt(a, b) ==
  /\ a # NaN /\ b # NaN /\ a # b
  /\ \/ a = NegInf
     \/ b = Inf
     \/ IsFinite(a) /\ IsFinite(b) /\ a < b

FGt(a, b) == FLt(b, a)

\* Math.pow(b, n) for a whole exponent n >= 0 (Math.pow(x, 0) is 1 for every x).
RECURSIVE PowInt(_, _)
PowInt(b, n) == IF n <= 0 THEN ONE ELSE FMul(b, PowInt(b, n - 1))

\* Math.pow(b, e) for a fixed-point exponent e that is a whole number.
Pow(b, e) == PowInt(b, e \div ONE)

\* Math.max(...a) and Math.min(...a) of a non-empty array a over 0..n-1.
RECURSIVE MaxUpTo(_, _)
MaxUpTo(a, i) ==
  IF i = 0 THEN a[0]
  ELSE LET m == MaxUpTo(a, i - 1)
       IN IF m = NaN \/ a[i] = NaN THEN NaN
          ELSE IF FGt(a[i], m) THEN a[i] ELSE m

RECURSIVE MinUpTo(_, _)
MinUpTo(a, i) ==
  IF i = 0 THEN a[0]
  ELSE LET m == MinUpTo(a, i - 1)
       IN IF m = NaN \/ a[i] = NaN THEN NaN
          ELSE IF FLt(a[i], m) THEN a[i] ELSE m

Len0(a) == Cardinality(DOMAIN a)

MathMax(a) == MaxUpTo(a, Len0(a) - 1)
MathMin(a) == MinUpTo(a, Len0(a) - 1)

\* ------------------------------------------------- alea and simplex-noise

\* Number of states of the seeded generator: a power of two, so that PrngNext
\* runs through all of them.
PrngModulus == 2 ^ 5

\* The seeded generator's state after alea(seed): a hash of String(seed).
Mash(seed) == (7 * seed + 3) % PrngModulus

\* The same for alea(undefined), in the builds where String(undefined) is hashed.
MashUndefined == PrngModulus - 1

\* One step of the generator; a call of random() returns its state / PrngModulus.
PrngNext(s) == (5 * s + 11) % PrngModulus

Swap(p, i, j) == [p EXCEPT ![i] = p[j], ![j] = p[i]]

\* The shuffle of buildPermutationTable: one draw per position but the last.
RECURSIVE Shuffle(_, _, _)
Shuffle(p, i, s) ==
  IF i >= PermSize - 1 THEN [perm |-> p, rng |-> s]
  ELSE LET s1 == PrngNext(s)
           r  == i + ((s1 * (PermSize - i)) \div PrngModulus)
       IN Shuffle(Swap(p, i, r), i + 1, s1)

\* createNoise2D(random): the noise function's table and the generator's state
\* after the draws.
CreateNoise2D(s) == Shuffle([i \in 0..(PermSize - 1) |-> i], 0, s)

\* noiseFunction(cx, cy): a value in [-1, 1] fixed by the table and the
\* lattice cell of the coordinates; for a coordinate that is not finite the
\* library returns NaN or 0, depending on its version.
Noise2D(p, cx, cy, nanBuild) ==
  IF ~IsFinite(cx) \/ ~IsFinite(cy) THEN (IF nanBuild THEN NaN ELSE 0)
  ELSE LET qx == (cx * NoiseRes) \div ONE
           qy == (cy * NoiseRes) \div ONE
           g  == p[(qx + p[qy % PermSize]) % PermSize]
       IN ((2 * ONE * g) \div (PermSize - 1)) - ONE

\* ------------------------------------------------------ createNoise2DData

Fields ==
  {"seed", "scale", "octaves", "persistence", "lacunarity",
   "offsetX", "offsetY", "exponent", "fudgeFactor"}

DEFAULT_NOISE_CONFIG ==
  [seed |-> 0, scale |-> ONE, octaves |-> 6, persistence |-> ONE \div 2,
   lacunarity |-> 2 * ONE, offsetX |-> 0, offsetY |-> 0, exponent |-> ONE,
   fudgeFactor |-> (12 * ONE) \div 10]

\* { ...DEFAULT_NOISE_CONFIG, ...config }: a NoiseConfig is the function from
\* the fields the caller gave to their values.
MergeConfig(config) ==
  [f \in Fields |-> IF f \in DOMAIN config THEN config[f] ELSE DEFAULT_NOISE_CONFIG[f]]

\* A generator shared by all calls and never seeded again.
randomFunctionShared(config, prev) == prev

\* alea(config.seed): the state of the fresh generator.  The seed is read from
\* the caller's config; prev is the state the previous call left behind, which
\* a fresh generator does not depend on.
randomFunction(config, prev) ==
  IF "seed" \in DOMAIN config THEN Mash(config["seed"]) ELSE MashUndefined

\* y * height + x
IndexByHeight(w, h, x, y) == y * h + x

\* y * width + x
Index(w, h, x, y) == y * w + x

\* The sum of the first n octaves at the normalised coordinates (nx, ny).
RECURSIVE OctaveSum(_, _, _, _, _, _)
OctaveSum(c, p, nx, ny, n, nanBuild) ==
  IF n <= 0 THEN 0
  ELSE LET i         == n - 1
           scale     == PowInt(c["lacunarity"], i)
           amplitude == PowInt(c["persistence"], i)
           inv       == FDiv(ONE, c["scale"])
           cx        == FMul(FAdd(FMul(nx, inv), c["offsetX"]), scale)
           cy        == FMul(FAdd(FMul(ny, inv), c["offsetY"]), scale)
       IN FAdd(OctaveSum(c, p, nx, ny, n - 1, nanBuild),
               FMul(Noise2D(p, cx, cy, nanBuild), amplitude))

\* The value the fill loop writes for cell (x, y).
CellValue(c, p, w, h, x, y, nanBuild) ==
  LET nx    == FDiv(x * ONE, w * ONE)
      ny    == FDiv(y * ONE, h * ONE)
      value == OctaveSum(c, p, nx, ny, c["octaves"], nanBuild)
  IN Pow(FMul(FAbs(value), c["fudgeFactor"]), c["exponent"])

\* data[i] = data[i] / highestValue
RescaleValueByMax(v, lo, hi) == FDiv(v, hi)

\* data[i] = (data[i] - lowestValue) / (highestValue - lowestValue)
RescaleValue(v, lo, hi) == FDiv(FSub(v, lo), FSub(hi, lo))

Rescaled(d) ==
  LET hi == MathMax(d)
      lo == MathMin(d)
  IN [i \in DOMAIN d |-> RescaleValue(d[i], lo, hi)]

\* The array after the fill loop, cell by cell as the loop writes it.
Filled(c, p, w, h, nanBuild) ==
  [i \in 0..(w * h - 1) |-> CellValue(c, p, w, h, i % w, i \div w, nanBuild)]

\* ---------------------------------------------------------- createTerrain

\* nextPowerOfTwo(value, max): the loop doubles result while result < value.
RECURSIVE DoubleUpTo(_, _)
DoubleUpTo(result, value) ==
  IF result < value THEN DoubleUpTo(result * 2, value) ELSE result

Min2(a, b) == IF a < b THEN a ELSE b

MaxHeightMapSide == 2048

nextPowerOfTwo(value) ==
  Min2(MaxHeightMapSide, DoubleUpTo(2, Min2(MaxHeightMapSide, value)))

\* MathUtils.mapLinear(v, a1, a2, b1, b2) = b1 + (v - a1) * (b2 - b1) / (a2 - a1)
mapLinear(v, a1, a2, b1, b2) ==
  FAdd(b1, FDiv(FMul(FSub(v, a1), FSub(b2, b1)), FSub(a2, a1)))

\* MathUtils.lerp(a, b, t) = (1 - t) * a + t * b
lerp(a, b, t) == FAdd(FMul(FSub(ONE, t), a), FMul(t, b))

\* Math.floor as an array index: a whole number, or NaN.
FloorIndex(a) == IF IsFinite(a) THEN a \div ONE ELSE NaN

\* Math.max(a, b)
FMax2(a, b) ==
  IF a = NaN \/ b = NaN THEN NaN ELSE IF FGt(a, b) THEN a ELSE b

\* heightMap[index], as the arithmetic that follows sees it: a read outside the
\* array is undefined, which every operation turns into NaN.
HeightAt(hm, index) == IF index \in DOMAIN hm THEN hm[index] ELSE NaN

\* The config createTerrain hands to createNoise2DData.
TerrainConfig(s) ==
  [seed |-> 0, scale |-> s.scale, octaves |-> s.octaves, lacunarity |-> s.lacunarity,
   persistence |-> s.persistence, offsetX |-> 0, offsetY |-> 0,
   exponent |-> s.exponent, fudgeFactor |-> ONE]

HalfWidth(s) == FDiv(s.terrainWidth, 2 * ONE)

\* The same interpolation onto [0, terrainWidth]: a mesh not centred on the origin.
VertexCoordFromZero(s, gx) ==
  mapLinear(gx * ONE, 0, (s.vertexCount - 1) * ONE, 0, s.terrainWidth)

\* vertexX for grid column gx (and vertexY for grid row gx).
VertexCoord(s, gx) ==
  mapLinear(gx * ONE, 0, (s.vertexCount - 1) * ONE, FNeg(HalfWidth(s)), HalfWidth(s))

\* The same lookup interpolating onto [0, side] instead of [0, side - 1].
SampleCoordToSide(s, gx, side) ==
  FloorIndex(mapLinear(gx * ONE, 0, (s.vertexCount - 1) * ONE, 0, side * ONE))

\* Row or column of the height map read for grid row or column gx.
SampleCoord(s, gx, side) ==
  FloorIndex(mapLinear(gx * ONE, 0, (s.vertexCount - 1) * ONE, 0, (side - 1) * ONE))

\* Index into the height map for grid vertex (gx, gy).
HeightMapIndex(s, gx, gy) ==
  LET side == nextPowerOfTwo(s.vertexCount)
      row  == SampleCoord(s, gy, side)
      col  == SampleCoord(s, gx, side)
  IN IF row = NaN \/ col = NaN THEN NaN ELSE row * side + col

\* easeEdge(max(nx, ny))
EdgeFactor(s, gx, gy) ==
  LET nx == mapLinear(FAbs(VertexCoord(s, gx)), 0, HalfWidth(s), 0, ONE)
      ny == mapLinear(FAbs(VertexCoord(s, gy)), 0, HalfWidth(s), 0, ONE)
  IN PowInt(FMax2(nx, ny), 3)

\* The Y of grid vertex (gx, gy): the sample, shaped as an island, scaled.
VertexHeight(s, hm, gx, gy) ==
  LET sample == HeightAt(hm, HeightMapIndex(s, gx, gy))
      shaped == lerp(sample, 0, EdgeFactor(s, gx, gy))
  IN mapLinear(shaped, 0, ONE, 0, s.terrainHeight)

\* x < vertexCount - 1
EmitsTrianglesInLastRow(n, gx, gy) == gx < n - 1

\* x < vertexCount - 1 && y < vertexCount - 1
EmitsTriangles(n, gx, gy) == gx < n - 1 /\ gy < n - 1

\* The two triangles of the grid cell whose first corner is (gx, gy).
TriangleA(n, gx, gy) == <<gy * n + gx, gy * n + gx + 1, (gy + 1) * n + gx>>

TriangleBRepeated(n, gx, gy) == <<(gy + 1) * n + gx, (gy + 1) * n + gx, (gy + 1) * n + gx + 1>>

TriangleB(n, gx, gy) == <<(gy + 1) * n + gx, gy * n + gx + 1, (gy + 1) * n + gx + 1>>

\* x / vertexCount: a texture coordinate that never reaches 1.
UVCoordByCount(n, gx) == FDiv(gx * ONE, n * ONE)

\* uvs.push(x / (vertexCount - 1), y / (vertexCount - 1))
UVCoord(n, gx) == FDiv(gx * ONE, (n - 1) * ONE)

\* ------------------------------------------------------- state of the model

VARIABLES
  aleaThrows,     \* library build: alea(undefined) throws a TypeError
  noiseNaN,       \* library build: noise of a non-finite coordinate is NaN (else 0)
  pc,             \* createNoise2DData: "idle", "fill", "rescale", "returned", "threw"
  width, height,  \* its arguments
  config,         \*   (the fields the caller gave)
  rng,            \* state of the generator made by alea
  perm,           \* table of noiseFunction
  data,           \* the Float32Array; the returned array once pc = "returned"
  fillWrites,     \* per index, the number of writes of the fill loop
  cellOf,         \* per index, the cell <<x, y>> whose write came last
  x, y,           \* loop counters of the fill loop
  highestValue,   \* Math.max(...data) before the rescale pass
  lowestValue,    \* Math.min(...data) before the rescale pass
  error,          \* "none", or the exception the call ended with
  prevOutcomes,   \* outcomes of the earlier calls with these same arguments
  tpc,            \* createTerrain: "idle", "noise", "vertices", "uvs", "finish", "done"
  settings,       \* its settings argument
  heightMap,      \* the array createNoise2DData returned to it
  positions,      \* flat array, three numbers per vertex
  indices,        \* flat array, three vertex numbers per triangle
  uvs,            \* flat array, two numbers per vertex
  trianglesAt,    \* per grid vertex, the triangles its loop iteration emitted
  tx, ty,         \* loop counters of createTerrain's loops
  terrainError,   \* "none", or the exception createTerrain ended with
  shaderPc,       \* fragment shader: "idle", "run", "shaded"
  shader,         \* the program that shades: "fragment.glsl" or "plugin"
  uniforms,       \* minHeight, maxHeight, lowColor, midColor, highColor
  vPositionY,     \* world-space height of the fragment
  terrainColor,   \* fragment.glsl: the colour main() computed
  colorResult,    \* plugin code: the colour the injected fragment code computed
  pluginClass,    \* revision of HeightColorMaterialPlugin: "static" or "fields"
  colorHeap,      \* the Color3 objects: object -> its r, g, b
  plugins,        \* the instances: _isEnabled, minHeight, maxHeight
  uniformBuffer,  \* what the last bindForSubMesh uploaded, and for which instance
  setOn,          \* per instance, the values set on that instance
  appPc,          \* App: "constructed" (init not run yet) or "running"
  appSettings,    \* the module's settings object
  meshes,         \* the terrain and water meshes created so far: name, disposed
  terrain,        \* App.terrain: number of a mesh, 0 for null
  water,          \* App.water: number of a mesh, 0 for null
  heightRange,    \* minHeight, maxHeight of the app's heightColorMaterialPlugin
  cameraBounds,   \* maxX (= maxZ = -minX = -minZ) given to rtsCameraInput.setBounds
  lightDirection, \* directionalLight.direction
  storedSettings, \* localStorage item "babylon-game-settings"
  lastEvent,      \* the event handled last, with App.terrain and the mesh count before it
  rtsInput,       \* the camera input: camera, _isDragging, _previousPosition, ...
  rtsCamera,      \* the camera it moves: position and target
  pointerObservers,   \* observers registered on scene.onPointerObservable
  mousemoveListeners, \* "mousemove" listeners registered on the canvas
  intervals,      \* ids of the window's live intervals
  timerIds,       \* number of ids window.setInterval has handed out
  attachCalls,    \* calls of attachControl so far
  cameraEvents,   \* events the input has handled so far
  inBoundsAtAdd,  \* the target lay within the bounds when the input got its camera
  cameraEvent,    \* the event handled last, with the input and camera before it
  canvasPc,       \* renderColorMapToCanvas: "idle", "cols", "done"
  canvas,         \* width and height of its canvas argument
  colorMapConfig, \* its config argument
  rowIndex,       \* index of the row config.rows.forEach is at
  colIndex,       \* index of the column row.cols.forEach is at
  xOffset,        \* let xOffset
  yOffset,        \* let yOffset
  fillRects,      \* the calls of ctx.fillRect so far, in order
  settingsPc,     \* the module's top-level code: "unloaded" or "loaded"
  settingsRevision, \* revision of the app module: "part_003" or "app.ts"
  storageItem,    \* localStorage item "babylon-game-settings" as the module sees it
  itemAtLoad,     \* the item as it was when the module was loaded
  moduleSettings, \* the module's settings object
  mapPluginPc,    \* the plugin with the maps: "none" or "constructed"
  mapPlugin,      \* its fields: _isEnabled, minHeight, maxHeight
  enableCalls,    \* the arguments of its calls of the base class's _enable, in order
  dirtyMarks,     \* number of its calls of markAllDefinesAsDirty
  definesWritten, \* defines["HeightColor"] as prepareDefines wrote it last
  uniformUpdates, \* number of times bindForSubMesh updated the uniforms
  mapPluginEvent, \* the call made last, with the state before it
  windowListeners, \* the listeners XYController has registered on window, in order
  xyValue,        \* the controller's value: object[property]
  xyDown,         \* a mousedown on the handle has had no mouseup after it yet
  xyCalls,        \* $onChange and $onFinishChange calls since the drag began
  xyEvent,        \* the mouse event seen last, with the value and xyDown before it
  powPc,          \* nextPowerOfTwo: "idle", "loop" or "returned"
  powArgs,        \* its arguments value and max, as the caller gave them
  powValue,       \* the parameter value, which the first statement overwrites
  powResult,      \* let result; the returned number once powPc = "returned"
  powTurns        \* number of times the loop body has run

noiseVars ==
  <<aleaThrows, noiseNaN, pc, width, height, config, rng, perm, data,
    fillWrites, cellOf, x, y, highestValue, lowestValue, error, prevOutcomes>>

terrainVars ==
  <<tpc, settings, heightMap, positions, indices, uvs, trianglesAt, tx, ty,
    terrainError>>

shaderVars == <<shaderPc, shader, uniforms, vPositionY, terrainColor, colorResult>>

\* What createNoise2DData and createTerrain never touch.
pluginVars == <<pluginClass, colorHeap, plugins, uniformBuffer, setOn>>

appVars ==
  <<appPc, appSettings, meshes, terrain, water, heightRange, cameraBounds,
    lightDirection, storedSettings, lastEvent>>

cameraVars ==
  <<rtsInput, rtsCamera, pointerObservers, mousemoveListeners, intervals,
    timerIds, attachCalls, cameraEvents, inBoundsAtAdd, cameraEvent>>

canvasVars ==
  <<canvasPc, canvas, colorMapConfig, rowIndex, colIndex, xOffset, yOffset, fillRects>>

settingsVars ==
  <<settingsPc, settingsRevision, storageItem, itemAtLoad, moduleSettings>>

mapPluginVars ==
  <<mapPluginPc, mapPlugin, enableCalls, dirtyMarks, definesWritten, uniformUpdates,
    mapPluginEvent>>

xyVars == <<windowListeners, xyValue, xyDown, xyCalls, xyEvent>>

powVars == <<powPc, powArgs, powValue, powResult, powTurns>>

\* The browser side of the app: camera input and controls.
hostVars == <<cameraVars, canvasVars, settingsVars, mapPluginVars, xyVars, powVars>>

\* What the camera input never touches, and what the canvas renderer never touches.
coreVars == <<noiseVars, terrainVars, shaderVars, pluginVars, appVars>>
nonCameraVars == <<coreVars, canvasVars, settingsVars, mapPluginVars, xyVars, powVars>>
nonCanvasVars == <<coreVars, cameraVars, settingsVars, mapPluginVars, xyVars, powVars>>
nonSettingsVars == <<coreVars, cameraVars, canvasVars, mapPluginVars, xyVars, powVars>>
nonMapPluginVars == <<coreVars, cameraVars, canvasVars, settingsVars, xyVars, powVars>>
nonXYVars == <<coreVars, cameraVars, canvasVars, settingsVars, mapPluginVars, powVars>>
nonPowVars == <<coreVars, cameraVars, canvasVars, settingsVars, mapPluginVars, xyVars>>

otherVars == <<shaderVars, pluginVars, appVars, hostVars>>

vars == <<noiseVars, terrainVars, otherVars>>

\* ------------------------------------------------------------ the callers

Restrict(f, S) == [k \in S |-> f[k]]

\* defaultSettings, the fields createTerrain reads.
DefaultSettings ==
  [scale |-> (15 * ONE) \div 10, exponent |-> 3 * ONE, octaves |-> 10,
   lacunarity |-> 2 * ONE, persistence |-> ONE \div 2,
   terrainWidth |-> 50 * ONE, terrainHeight |-> 10 * ONE, vertexCount |-> 200]

\* The example of the specification's scenario.
ScenarioConfig ==
  [seed |-> 0, scale |-> ONE, octaves |-> 1, persistence |-> ONE \div 2,
   lacunarity |-> 2 * ONE, offsetX |-> 0, offsetY |-> 0, exponent |-> ONE,
   fudgeFactor |-> ONE]

OtherSeedConfig ==
  [seed |-> 1, scale |-> 2 * ONE, octaves |-> 2, persistence |-> ONE,
   lacunarity |-> 3 * ONE, offsetX |-> ONE, offsetY |-> ONE \div 2, exponent |-> 2 * ONE,
   fudgeFactor |-> (12 * ONE) \div 10]

BaseConfigs ==
  { DEFAULT_NOISE_CONFIG, ScenarioConfig, TerrainConfig(DefaultSettings), OtherSeedConfig,
    [ScenarioConfig EXCEPT !["scale"] = 0],
    [ScenarioConfig EXCEPT !["octaves"] = 0] }

\* The configs a caller passes: a base config with at most MaxOmitted fields
\* left out, or the empty config.
Configs ==
  { Restrict(b, Fields \ om) :
      b \in BaseConfigs, om \in { o \in SUBSET Fields : Cardinality(o) <= MaxOmitted } }
  \cup { Restrict(DEFAULT_NOISE_CONFIG, {}) }

Dims == 1..MaxDim

\* The settings createTerrain is called with: the defaults, or stored settings
\* that differ from them in one noise parameter, with a small vertexCount and
\* one of two sizes.
NoiseSettings ==
  { DefaultSettings,
    [DefaultSettings EXCEPT !.scale = 0],
    [DefaultSettings EXCEPT !.octaves = 0],
    [DefaultSettings EXCEPT !.exponent = ONE, !.octaves = 2, !.scale = ONE] }

TerrainSettings ==
  { [s EXCEPT !.vertexCount = n, !.terrainWidth = sz[1], !.terrainHeight = sz[2]] :
      s \in NoiseSettings, n \in 0..MaxVertexCount,
      sz \in { <<50 * ONE, 10 * ONE>>, <<10 * ONE, 5 * ONE>> } }

\* ------------------------------------------------------ createNoise2DData

Outcome == [error |-> error, data |-> data]

\* Lines 30-36: merge the config, seed the generator, build the noise function,
\* allocate the array.  alea may throw on an undefined seed.
Enter(w, h, cfg, earlier) ==
  /\ width' = w
  /\ height' = h
  /\ config' = cfg
  /\ prevOutcomes' = earlier
  /\ x' = 0
  /\ y' = 0
  /\ highestValue' = 0
  /\ lowestValue' = 0
  /\ fillWrites' = [i \in 0..(w * h - 1) |-> 0]
  /\ cellOf' = [i \in 0..(w * h - 1) |-> <<-1, -1>>]
  /\ UNCHANGED <<aleaThrows, noiseNaN>>
  /\ IF "seed" \notin DOMAIN cfg /\ aleaThrows
       THEN /\ pc' = "threw"
            /\ error' = "TypeError"
            /\ data' = [i \in {} |-> 0]
            /\ UNCHANGED <<rng, perm>>
       ELSE LET made == CreateNoise2D(randomFunction(cfg, rng))
            IN /\ pc' = "fill"
               /\ error' = "none"
               /\ rng' = made.rng
               /\ perm' = made.perm
               /\ data' = [i \in 0..(w * h - 1) |-> 0]

\* The call is over and its result taken or dropped: its locals are gone.
Leave ==
  /\ pc' = "idle"
  /\ width' = 1
  /\ height' = 1
  /\ config' = Restrict(DEFAULT_NOISE_CONFIG, {})
  /\ rng' = 0
  /\ perm' = [i \in 0..(PermSize - 1) |-> i]
  /\ data' = [i \in {} |-> 0]
  /\ fillWrites' = [i \in {} |-> 0]
  /\ cellOf' = [i \in {} |-> <<-1, -1>>]
  /\ x' = 0
  /\ y' = 0
  /\ highestValue' = 0
  /\ lowestValue' = 0
  /\ error' = "none"
  /\ prevOutcomes' = {}
  /\ UNCHANGED <<aleaThrows, noiseNaN>>

\* A caller other than createTerrain calls createNoise2DData(w, h, cfg).
Call(w, h, cfg) ==
  /\ tpc = "idle"
  /\ pc = "idle"
  /\ Enter(w, h, cfg, {})
  /\ UNCHANGED terrainVars
  /\ UNCHANGED otherVars

\* That caller repeats its last call with the same arguments.
CallAgain ==
  /\ tpc = "idle"
  /\ pc \in {"returned", "threw"}
  /\ Enter(width, height, config, prevOutcomes \cup {Outcome})
  /\ UNCHANGED terrainVars
  /\ UNCHANGED otherVars

\* That caller drops the result.
Discard ==
  /\ tpc = "idle"
  /\ pc \in {"returned", "threw"}
  /\ Leave
  /\ UNCHANGED terrainVars
  /\ UNCHANGED otherVars

\* Lines 38-59: one iteration of the fill loop.  A typed array ignores a
\* write outside its bounds.
FillCell ==
  /\ pc = "fill"
  /\ LET index == Index(width, height, x, y)
         value == CellValue(MergeConfig(config), perm, width, height, x, y, noiseNaN)
     IN IF index \in DOMAIN data
          THEN /\ data' = [data EXCEPT ![index] = value]
               /\ fillWrites' = [fillWrites EXCEPT ![index] = @ + 1]
               /\ cellOf' = [cellOf EXCEPT ![index] = <<x, y>>]
          ELSE UNCHANGED <<data, fillWrites, cellOf>>
  /\ IF x + 1 < width
       THEN /\ x' = x + 1
            /\ UNCHANGED <<y, pc>>
       ELSE /\ x' = 0
            /\ y' = y + 1
            /\ pc' = IF y + 1 < height THEN "fill" ELSE "rescale"
  /\ UNCHANGED <<aleaThrows, noiseNaN, width, height, config, rng, perm,
                 highestValue, lowestValue, error, prevOutcomes>>
  /\ UNCHANGED terrainVars
  /\ UNCHANGED otherVars

\* Lines 61-71: the rescale pass and the return.
Rescale ==
  /\ pc = "rescale"
  /\ highestValue' = MathMax(data)
  /\ lowestValue' = MathMin(data)
  /\ data' = Rescaled(data)
  /\ pc' = "returned"
  /\ UNCHANGED <<aleaThrows, noiseNaN, width, height, config, rng, perm,
                 fillWrites, cellOf, x, y, error, prevOutcomes>>
  /\ UNCHANGED terrainVars
  /\ UNCHANGED otherVars

\* ---------------------------------------------------------- createTerrain

\* Lines 1032-1049: read the settings and call createNoise2DData.
CreateTerrain(s) ==
  /\ tpc = "idle"
  /\ pc = "idle"
  /\ settings' = s
  /\ tpc' = "noise"
  /\ Enter(nextPowerOfTwo(s.vertexCount), nextPowerOfTwo(s.vertexCount),
           TerrainConfig(s), {})
  /\ UNCHANGED <<heightMap, positions, indices, uvs, trianglesAt, tx, ty, terrainError>>
  /\ UNCHANGED otherVars

\* Lines 1049-1057: the height map is returned; the mesh arrays start empty.
HeightMapReturned ==
  /\ tpc = "noise"
  /\ pc = "returned"
  /\ heightMap' = data
  /\ Leave
  /\ positions' = <<>>
  /\ indices' = <<>>
  /\ uvs' = <<>>
  /\ trianglesAt' = [c \in {} |-> 0]
  /\ tx' = 0
  /\ ty' = 0
  /\ tpc' = IF settings.vertexCount > 0 THEN "vertices" ELSE "finish"
  /\ UNCHANGED <<settings, terrainError>>
  /\ UNCHANGED otherVars

\* Lines 1058-1095: one iteration of the vertex loop.
TerrainVertex ==
  /\ tpc = "vertices"
  /\ LET n == settings.vertexCount
         emits == EmitsTriangles(n, tx, ty)
     IN /\ positions' = positions \o
             <<VertexCoord(settings, tx), VertexHeight(settings, heightMap, tx, ty),
               VertexCoord(settings, ty)>>
        /\ indices' = IF emits
                        THEN indices \o TriangleA(n, tx, ty) \o TriangleB(n, tx, ty)
                        ELSE indices
        /\ trianglesAt' = [c \in DOMAIN trianglesAt \cup {<<tx, ty>>} |->
                             IF c = <<tx, ty>> THEN (IF emits THEN 2 ELSE 0)
                             ELSE trianglesAt[c]]
        /\ IF tx + 1 < n
             THEN /\ tx' = tx + 1
                  /\ UNCHANGED <<ty, tpc>>
             ELSE /\ tx' = 0
                  /\ IF ty + 1 < n
                       THEN /\ ty' = ty + 1
                            /\ UNCHANGED tpc
                       ELSE /\ ty' = 0
                            /\ tpc' = "uvs"
  /\ UNCHANGED <<settings, heightMap, uvs, terrainError>>
  /\ UNCHANGED noiseVars
  /\ UNCHANGED otherVars

\* Lines 1103-1107: one iteration of the UV loop.
TerrainUV ==
  /\ tpc = "uvs"
  /\ LET n == settings.vertexCount
     IN /\ uvs' = uvs \o <<UVCoord(n, tx), UVCoord(n, ty)>>
        /\ IF tx + 1 < n
             THEN /\ tx' = tx + 1
                  /\ UNCHANGED <<ty, tpc>>
             ELSE /\ tx' = 0
                  /\ IF ty + 1 < n
                       THEN /\ ty' = ty + 1
                            /\ UNCHANGED tpc
                       ELSE /\ ty' = 0
                            /\ tpc' = "finish"
  /\ UNCHANGED <<settings, heightMap, positions, indices, trianglesAt, terrainError>>
  /\ UNCHANGED noiseVars
  /\ UNCHANGED otherVars

\* Lines 1109-1135: the arrays become the mesh's vertex data; the mesh is returned.
TerrainFinish ==
  /\ tpc = "finish"
  /\ tpc' = "done"
  /\ UNCHANGED <<settings, heightMap, positions, indices, uvs, trianglesAt, tx, ty,
                 terrainError>>
  /\ UNCHANGED noiseVars
  /\ UNCHANGED otherVars

\* The caller disposes of the mesh.
TerrainDispose ==
  /\ tpc = "done"
  /\ tpc' = "idle"
  /\ settings' = DefaultSettings
  /\ heightMap' = [i \in {} |-> 0]
  /\ positions' = <<>>
  /\ indices' = <<>>
  /\ uvs' = <<>>
  /\ trianglesAt' = [c \in {} |-> 0]
  /\ tx' = 0
  /\ ty' = 0
  /\ terrainError' = "none"
  /\ UNCHANGED noiseVars
  /\ UNCHANGED otherVars

\* ------------------------------------------- the 3-band elevation gradient

\* Heights of the fragments of a draw: minHeight + k / HeightSteps of the height
\* range, from one range below minHeight to one range above maxHeight.
HeightSteps == 100

\* The thresholds 0.33 and 0.66 of both fragment programs.
LowThreshold == (33 * ONE) \div 100

HighThreshold == (66 * ONE) \div 100

\* mix with its first two arguments exchanged.
mixSwapped(a, b, t) ==
  [i \in 1..3 |-> FAdd(FMul(b[i], FSub(ONE, t)), FMul(a[i], t))]

\* GLSL mix(a, b, t) on vec3: a * (1 - t) + b * t.
mix(a, b, t) ==
  [i \in 1..3 |-> FAdd(FMul(a[i], FSub(ONE, t)), FMul(b[i], t))]

\* GLSL clamp(v, lo, hi) = min(max(v, lo), hi).
clamp(v, lo, hi) == IF v < lo THEN lo ELSE IF v > hi THEN hi ELSE v

\* (height - minHeight) / (maxHeight - minHeight)
NormalizedHeight(u, h) ==
  FDiv(FSub(h, u.minHeight), FSub(u.maxHeight, u.minHeight))

\* fragment.glsl, first branch: mix(lowColor, midColor, normalizedHeight * 3.0)
MainLowBand(u, nh) == mix(u.lowColor, u.midColor, FMul(nh, 3 * ONE))

\* fragment.glsl, second branch:
\* mix(midColor, highColor, (normalizedHeight - 0.33) * 3.0)
MainMidBand(u, nh) ==
  mix(u.midColor, u.highColor, FMul(FSub(nh, LowThreshold), 3 * ONE))

\* fragment.glsl: terrainColor of a fragment at height h.
MainTerrainColor(u, h) ==
  LET nh == clamp(NormalizedHeight(u, h), 0, ONE)
  IN IF FLt(nh, LowThreshold) THEN MainLowBand(u, nh)
     ELSE IF FLt(nh, HighThreshold) THEN MainMidBand(u, nh)
     ELSE u.highColor

\* Plugin code, first branch: t = normalizedHeight / 0.33; mix(lowColor, midColor, t)
PluginLowBand(u, nh) == mix(u.lowColor, u.midColor, FDiv(nh, LowThreshold))

\* Plugin code, second branch: t = (normalizedHeight - 0.33) / 0.33
PluginMidBand(u, nh) ==
  mix(u.midColor, u.highColor, FDiv(FSub(nh, LowThreshold), LowThreshold))

\* Plugin code: colorResult of a fragment at height h.
PluginColorResult(u, h) ==
  LET nh == NormalizedHeight(u, h)
  IN IF FLt(nh, LowThreshold) THEN PluginLowBand(u, nh)
     ELSE IF FLt(nh, HighThreshold) THEN PluginMidBand(u, nh)
     ELSE u.highColor

Color3(r, g, b) == <<r, g, b>>

\* The colours the applications bind: the plugin's defaults, the colours of the
\* shader material, and a palette with no two channels equal.
ColorSets ==
  { [lowColor |-> Color3(0, 0, ONE), midColor |-> Color3(0, ONE, 0),
     highColor |-> Color3(ONE, 0, 0)],
    [lowColor |-> Color3(0, 0, ONE), midColor |-> Color3(ONE \div 2, ONE \div 2, ONE \div 2),
     highColor |-> Color3(ONE, ONE, ONE)],
    [lowColor |-> Color3(ONE \div 5, (2 * ONE) \div 5, (3 * ONE) \div 5),
     midColor |-> Color3((4 * ONE) \div 5, (3 * ONE) \div 5, ONE \div 5),
     highColor |-> Color3(ONE, (9 * ONE) \div 10, (7 * ONE) \div 10)] }

\* The height ranges: the plugin's default, setHeightRange(0, terrainHeight) for
\* the default terrainHeight, and a range that does not start at 0.
HeightRanges == { <<0, ONE>>, <<0, 10 * ONE>>, <<2 * ONE, 6 * ONE>> }

UniformSets ==
  { [minHeight |-> r[1], maxHeight |-> r[2], lowColor |-> c.lowColor,
     midColor |-> c.midColor, highColor |-> c.highColor] :
      r \in HeightRanges, c \in ColorSets }

FragmentHeights(u) ==
  { u.minHeight + (k * (u.maxHeight - u.minHeight)) \div HeightSteps :
      k \in (-HeightSteps)..(2 * HeightSteps) }

Programs == {"fragment.glsl", "plugin"}

\* The uniforms are bound and the rasteriser produces a fragment at height h.
DrawFragment(prog, u, h) ==
  /\ shaderPc = "idle"
  /\ shaderPc' = "run"
  /\ shader' = prog
  /\ uniforms' = u
  /\ vPositionY' = h
  /\ UNCHANGED <<terrainColor, colorResult>>
  /\ UNCHANGED <<noiseVars, terrainVars, pluginVars, appVars, hostVars>>

\* fragment.glsl lines 16-29: main() up to terrainColor.
FragmentMain ==
  /\ shaderPc = "run"
  /\ shader = "fragment.glsl"
  /\ terrainColor' = MainTerrainColor(uniforms, vPositionY)
  /\ shaderPc' = "shaded"
  /\ UNCHANGED <<shader, uniforms, vPositionY, colorResult>>
  /\ UNCHANGED <<noiseVars, terrainVars, pluginVars, appVars, hostVars>>

\* getCustomCode, CUSTOM_FRAGMENT_BEFORE_FRAGCOLOR: the code up to colorResult.
PluginFragment ==
  /\ shaderPc = "run"
  /\ shader = "plugin"
  /\ colorResult' = PluginColorResult(uniforms, vPositionY)
  /\ shaderPc' = "shaded"
  /\ UNCHANGED <<shader, uniforms, vPositionY, terrainColor>>
  /\ UNCHANGED <<noiseVars, terrainVars, pluginVars, appVars, hostVars>>

\* The fragment is written; the next one follows.
FragmentDone ==
  /\ shaderPc = "shaded"
  /\ shaderPc' = "idle"
  /\ shader' = "fragment.glsl"
  /\ uniforms' = CHOOSE u \in UniformSets : u.maxHeight = ONE /\ u.midColor = Color3(0, ONE, 0)
  /\ vPositionY' = 0
  /\ terrainColor' = Color3(0, 0, 0)
  /\ colorResult' = Color3(0, 0, 0)
  /\ UNCHANGED <<noiseVars, terrainVars, pluginVars, appVars, hostVars>>

ShaderIdle ==
  /\ shaderPc = "idle"
  /\ shader = "fragment.glsl"
  /\ uniforms = CHOOSE u \in UniformSets : u.maxHeight = ONE /\ u.midColor = Color3(0, ONE, 0)
  /\ vPositionY = 0
  /\ terrainColor = Color3(0, 0, 0)
  /\ colorResult = Color3(0, 0, 0)

\* ------------------------------------------------ HeightColorMaterialPlugin

\* Two revisions of the class: "static" keeps the colour in the static field
\* HeightColorMaterialPlugin.lowColor, "fields" keeps lowColor, midColor,
\* highColor, minHeight and maxHeight in fields of the instance.
PluginClasses == {"static", "fields"}

Instances == {"p1", "p2"}

\* Color3 objects the caller owns and passes to setColors.
CallerColors == {"c1", "c2"}

ColorFields == {"lowColor", "midColor", "highColor"}

\* The static field HeightColorMaterialPlugin.lowColor.
StaticLowColor == <<"HeightColorMaterialPlugin", "lowColor">>

ColorObjects ==
  {StaticLowColor} \cup (Instances \X ColorFields) \cup ({"caller"} \X CallerColors)

\* The field initialisers: blue, green, red.
DefaultColor(field) ==
  IF field = "lowColor" THEN Color3(0, 0, ONE)
  ELSE IF field = "midColor" THEN Color3(0, ONE, 0)
  ELSE Color3(ONE, 0, 0)

\* The values a caller gives a colour.
Palette == {Color3(0, 0, ONE), Color3(ONE \div 2, ONE \div 2, ONE \div 2)}

\* The height ranges given to setHeightRange: the default, and (0, terrainHeight)
\* for the default terrainHeight.
PluginRanges == { <<0, ONE>>, <<0, 10 * ONE>> }

\* The names bindForSubMesh uploads.
UniformNames(class) ==
  IF class = "static" THEN {"lowColor"}
  ELSE ColorFields \cup {"minHeight", "maxHeight"}

\* The object bindForSubMesh reads a colour of instance q from.
ColorSource(class, q, field) ==
  IF class = "static" THEN StaticLowColor ELSE <<q, field>>

\* What bindForSubMesh of instance q uploads in the current state.
Uploads(q) ==
  [n \in UniformNames(pluginClass) |->
     IF n \in ColorFields THEN colorHeap[ColorSource(pluginClass, q, n)]
     ELSE plugins[q][n]]

\* The values of a newly constructed instance.
Constructed(class) ==
  [n \in UniformNames(class) |->
     IF n \in ColorFields THEN DefaultColor(n)
     ELSE IF n = "minHeight" THEN 0 ELSE ONE]

\* isEnabled = enabled
SetEnabled(q, enabled) ==
  /\ plugins[q].isEnabled # enabled
  /\ plugins' = [plugins EXCEPT ![q].isEnabled = enabled]
  /\ UNCHANGED <<pluginClass, colorHeap, uniformBuffer, setOn>>
  /\ UNCHANGED <<noiseVars, terrainVars, shaderVars, appVars, hostVars>>

\* q.setColors(a, b, c) with three Color3 objects of the caller: copyFrom
\* copies their components into the instance's own objects.
SetColors(q, a, b, c) ==
  /\ pluginClass = "fields"
  /\ colorHeap' = [colorHeap EXCEPT ![<<q, "lowColor">>] = colorHeap[<<"caller", a>>],
                                    ![<<q, "midColor">>] = colorHeap[<<"caller", b>>],
                                    ![<<q, "highColor">>] = colorHeap[<<"caller", c>>]]
  /\ setOn' = [setOn EXCEPT ![q].lowColor = colorHeap[<<"caller", a>>],
                            ![q].midColor = colorHeap[<<"caller", b>>],
                            ![q].highColor = colorHeap[<<"caller", c>>]]
  /\ UNCHANGED <<pluginClass, plugins, uniformBuffer>>
  /\ UNCHANGED <<noiseVars, terrainVars, shaderVars, appVars, hostVars>>

\* q.setHeightRange(range[1], range[2])
SetHeightRange(q, range) ==
  /\ pluginClass = "fields"
  /\ plugins' = [plugins EXCEPT ![q].minHeight = range[1], ![q].maxHeight = range[2]]
  /\ setOn' = [setOn EXCEPT ![q].minHeight = range[1], ![q].maxHeight = range[2]]
  /\ UNCHANGED <<pluginClass, colorHeap, uniformBuffer>>
  /\ UNCHANGED <<noiseVars, terrainVars, shaderVars, appVars, hostVars>>

\* The caller changes one of its own Color3 objects in place.
MutateCallerColor(c, value) ==
  /\ colorHeap[<<"caller", c>>] # value
  /\ colorHeap' = [colorHeap EXCEPT ![<<"caller", c>>] = value]
  /\ UNCHANGED <<pluginClass, plugins, uniformBuffer, setOn>>
  /\ UNCHANGED <<noiseVars, terrainVars, shaderVars, appVars, hostVars>>

\* The caller changes the low colour through instance q, in place.  In the
\* "fields" revision that is q.lowColor; in the "static" revision the only
\* low colour there is is the static field of the class.
MutateLowColor(q, value) ==
  /\ colorHeap[ColorSource(pluginClass, q, "lowColor")] # value
  /\ colorHeap' = [colorHeap EXCEPT ![ColorSource(pluginClass, q, "lowColor")] = value]
  /\ setOn' = [setOn EXCEPT ![q].lowColor = value]
  /\ UNCHANGED <<pluginClass, plugins, uniformBuffer>>
  /\ UNCHANGED <<noiseVars, terrainVars, shaderVars, appVars, hostVars>>

\* bindForSubMesh of instance q: uploads only when the plugin is enabled.
BindForSubMesh(q) ==
  /\ uniformBuffer' = IF plugins[q].isEnabled
                        THEN [plugin |-> q, values |-> Uploads(q)]
                        ELSE uniformBuffer
  /\ UNCHANGED <<pluginClass, colorHeap, plugins, setOn>>
  /\ UNCHANGED <<noiseVars, terrainVars, shaderVars, appVars, hostVars>>

\* A colour object of every instance, of the class and of the caller, with the
\* initialiser's value; two instances just constructed; nothing bound.
PluginsConstructed(class) ==
  /\ pluginClass = class
  /\ colorHeap = [o \in ColorObjects |->
                    IF o[1] = "caller" THEN Color3(0, 0, ONE) ELSE DefaultColor(o[2])]
  /\ plugins = [q \in Instances |-> [isEnabled |-> FALSE, minHeight |-> 0, maxHeight |-> ONE]]
  /\ uniformBuffer = [plugin |-> "none", values |-> Constructed(class)]
  /\ setOn = [q \in Instances |-> Constructed(class)]

PluginIdle == PluginsConstructed("fields")

\* ---------------------------------------------------------------- the App

\* The number of meshes the model lets the App create.
MaxMeshes == 8

\* The properties whose finish-change event rebuilds the terrain.
TerrainProperties ==
  {"scale", "exponent", "octaves", "lacunarity", "persistence", "terrainWidth",
   "terrainHeight", "vertexCount"}

\* The properties of settings that have a controller in the GUI.
GuiProperties == TerrainProperties \cup {"waterLevel", "lightDirection"}

\* defaultSettings
AppDefaultSettings ==
  [scale |-> (15 * ONE) \div 10, exponent |-> 3 * ONE, octaves |-> 10,
   lacunarity |-> 2 * ONE, persistence |-> ONE \div 2,
   terrainWidth |-> 50 * ONE, terrainHeight |-> 10 * ONE, vertexCount |-> 200,
   lightDirection |-> <<ONE \div 2, ONE \div 2>>, lightIntensity |-> (7 * ONE) \div 10,
   ambientLightIntensity |-> ONE \div 2, waterLevel |-> (7 * ONE) \div 10]

\* The values the user gives a property: its default, or one other value of
\* the controller's range.
GuiValues(property) ==
  {AppDefaultSettings[property],
   [scale |-> ONE, exponent |-> ONE, octaves |-> 1, lacunarity |-> 3 * ONE,
    persistence |-> ONE, terrainWidth |-> 10 * ONE, terrainHeight |-> 5 * ONE,
    vertexCount |-> 10, waterLevel |-> ONE, lightDirection |-> <<0, ONE>>][property]}

\* ------------------------------------------------------ the stored settings

MaxMissing == 2

\* undefined and null, as values of a field.
Undefined == 2000000005
JsonNull == 2000000004

AppRevisions == {"part_003", "app.ts"}

\* defaultSettings of the earlier revision; a colour is written as its number.
OldDefaultSettings ==
  [frequency |-> 2 * ONE, exponent |-> 3 * ONE, octaves |-> 10,
   terrainWidth |-> 50 * ONE, terrainHeight |-> 10 * ONE, vertexCount |-> 500,
   lightDirection |-> <<ONE \div 2, ONE \div 2>>, lightIntensity |-> (7 * ONE) \div 10,
   ambientLightIntensity |-> ONE \div 2,
   lowColor |-> 255, midColor |-> 65280, highColor |-> 16711680]

DefaultsOf(revision) ==
  IF revision = "part_003" THEN AppDefaultSettings ELSE OldDefaultSettings

\* JSON.stringify writes a number that is not finite as null and leaves out a
\* field that is undefined.
JsonNumber(v) == IF IsFinite(v) THEN v ELSE JsonNull

JsonValue(k, v) ==
  IF k = "lightDirection" THEN <<JsonNumber(v[1]), JsonNumber(v[2])>> ELSE JsonNumber(v)

Written(s) ==
  {k \in DOMAIN s : IF k = "lightDirection" THEN TRUE ELSE s[k] # Undefined}

\* The three kinds of item: none, a text that is no JSON, the text of an object.
NoItem == [kind |-> "absent"]
NoJson == [kind |-> "text"]
JsonOf(object) == [kind |-> "json", object |-> object]

JsonKeep(s) == NoItem

JsonStringify(s) == JsonOf([k \in Written(s) |-> JsonValue(k, s[k])])

\* What an earlier session may have stored: the settings of either revision,
\* as they are by default or after a change, with some fields left out.
Writers ==
  {JsonStringify(AppDefaultSettings).object,
   JsonStringify(OldDefaultSettings).object,
   JsonStringify([AppDefaultSettings EXCEPT !.terrainHeight = 5 * ONE,
                                            !.terrainWidth = 10 * ONE]).object}

StoredObjects ==
  { Restrict(w, DOMAIN w \ missing) :
      w \in Writers,
      missing \in {m \in SUBSET {"scale", "terrainHeight", "lightDirection", "waterLevel",
                                 "frequency", "lowColor"} :
                     Cardinality(m) <= MaxMissing} }

StorageItems == {NoItem, NoJson} \cup {JsonOf(o) : o \in StoredObjects}

\* { ...a, ...b }
Spread(a, b) ==
  [k \in DOMAIN a \cup DOMAIN b |-> IF k \in DOMAIN b THEN b[k] ELSE a[k]]

\* object[k], undefined for a field the object does not have.
Field(object, k) ==
  IF k \in DOMAIN object THEN object[k]
  ELSE IF k = "lightDirection" THEN <<Undefined, Undefined>>
  ELSE Undefined

\* updateSettings(newSettings): the fields of this revision are copied one by one.
UpdateSettings(revision, newSettings) ==
  [k \in DOMAIN DefaultsOf(revision) |-> Field(newSettings, k)]

\* newSettings after the try block, for an item that parses.
Parsed(revision, object) ==
  IF revision = "part_003" THEN Spread(DefaultsOf(revision), object) ELSE object

\* The top-level code of the module: the settings and the item it leaves.
LoadSettings(revision, item) ==
  IF item.kind = "absent"
    THEN [settings |-> DefaultsOf(revision),
          item |-> JsonStringify(DefaultsOf(revision))]
  ELSE IF item.kind = "text"
    THEN [settings |-> UpdateSettings(revision, DefaultsOf(revision)),
          item |-> NoItem]
  ELSE [settings |-> UpdateSettings(revision, Parsed(revision, item.object)),
        item |-> item]

ModuleLoaded ==
  /\ settingsPc = "unloaded"
  /\ settingsPc' = "loaded"
  /\ moduleSettings' = LoadSettings(settingsRevision, storageItem).settings
  /\ storageItem' = LoadSettings(settingsRevision, storageItem).item
  /\ UNCHANGED <<settingsRevision, itemAtLoad>>
  /\ UNCHANGED nonSettingsVars

\* The page is closed; the item stays for the next session.
PageClosed ==
  /\ settingsPc = "loaded"
  /\ settingsPc' = "unloaded"
  /\ moduleSettings' = DefaultsOf(settingsRevision)
  /\ itemAtLoad' = storageItem
  /\ UNCHANGED <<settingsRevision, storageItem>>
  /\ UNCHANGED nonSettingsVars

\* The module of a revision before its top-level code ran, with this item stored.
SettingsUnloaded(revision, item) ==
  /\ settingsPc = "unloaded"
  /\ settingsRevision = revision
  /\ storageItem = item
  /\ itemAtLoad = item
  /\ moduleSettings = DefaultsOf(revision)

SettingsIdle == SettingsUnloaded("part_003", NoItem)

\* new BABYLON.Mesh(name, scene): the mesh gets the next number.
NewMesh(ms, name) == Append(ms, [name |-> name, disposed |-> FALSE])

\* A handler that leaves the old mesh in the scene.
KeepMesh(ms, id) == ms

\* mesh?.dispose()
DisposeMesh(ms, id) == IF id = 0 THEN ms ELSE [ms EXCEPT ![id].disposed = TRUE]

\* this.terrain?.dispose(); this.terrain = createTerrain(scene, material, settings)
TerrainReplaced(ms, id) == NewMesh(DisposeMesh(ms, id), "terrain")

\* this.water?.dispose(); this.water = createWater()
WaterReplaced(ms, id) == NewMesh(DisposeMesh(ms, id), "water")

\* new BABYLON.Vector3(settings.lightDirection.x * 5, -1, settings.lightDirection.y * 5)
LightVector(d) == <<FMul(d[1], 5 * ONE), -ONE, FMul(d[2], 5 * ONE)>>

HeightRangeKept(property, value, range) == range

\* if (property === "terrainHeight") setHeightRange(0, settings.terrainHeight)
HeightRangeAfter(property, value, range) ==
  IF property = "terrainHeight" THEN <<0, value>> ELSE range

\* The items the app module finds stored when the page is opened.
AppStartItems ==
  {NoItem, NoJson, JsonOf([terrainHeight |-> 5 * ONE]),
   JsonStringify([AppDefaultSettings EXCEPT !.terrainWidth = 10 * ONE,
                                            !.waterLevel = ONE])}

\* App.init(): the plugin's height range, the first terrain, the camera
\* bounds, the first water mesh, with the settings the module has loaded.
AppStart ==
  /\ appPc = "constructed"
  /\ appPc' = "running"
  /\ heightRange' = <<0, appSettings.terrainHeight>>
  /\ meshes' = NewMesh(NewMesh(meshes, "terrain"), "water")
  /\ terrain' = Len(meshes) + 1
  /\ water' = Len(meshes) + 2
  /\ cameraBounds' = FDiv(appSettings.terrainWidth, 2 * ONE)
  /\ lightDirection' = LightVector(appSettings.lightDirection)
  /\ lastEvent' = [property |-> "init", terrain |-> terrain, meshCount |-> Len(meshes)]
  /\ UNCHANGED <<appSettings, storedSettings>>
  /\ UNCHANGED <<noiseVars, terrainVars, shaderVars, pluginVars, hostVars>>

\* The controller of property writes value to settings and the GUI fires
\* finish-change: the handler of gui.onFinishChange.
FinishChange(property, value) ==
  /\ appPc = "running"
  /\ Len(meshes) + 2 <= MaxMeshes
  /\ value # appSettings[property]
  /\ appSettings' = [appSettings EXCEPT ![property] = value]
  /\ LET rebuilt == property \in TerrainProperties
         afterTerrain == IF rebuilt THEN TerrainReplaced(meshes, terrain) ELSE meshes
         waterOnce == IF rebuilt THEN WaterReplaced(afterTerrain, water) ELSE afterTerrain
         waterBefore == IF rebuilt THEN Len(waterOnce) ELSE water
         afterWater == IF property = "waterLevel"
                         THEN WaterReplaced(waterOnce, waterBefore) ELSE waterOnce
     IN /\ meshes' = afterWater
        /\ terrain' = IF rebuilt THEN Len(afterTerrain) ELSE terrain
        /\ water' = IF rebuilt \/ property = "waterLevel" THEN Len(afterWater) ELSE water
  /\ heightRange' = HeightRangeAfter(property, value, heightRange)
  /\ lightDirection' = IF property = "lightDirection" THEN LightVector(value)
                       ELSE lightDirection
  /\ storedSettings' = JsonStringify(appSettings')
  /\ lastEvent' = [property |-> property, terrain |-> terrain, meshCount |-> Len(meshes)]
  /\ UNCHANGED <<appPc, cameraBounds>>
  /\ UNCHANGED <<noiseVars, terrainVars, shaderVars, pluginVars, hostVars>>

\* The controller of a light's intensity fires finish-change: its property,
\* "intensity", is none the handler looks for, and the settings are stored.
FinishChangeOfLight ==
  /\ appPc = "running"
  /\ lastEvent.property # "intensity"
  /\ storedSettings' = JsonStringify(appSettings)
  /\ lastEvent' = [property |-> "intensity", terrain |-> terrain, meshCount |-> Len(meshes)]
  /\ UNCHANGED <<appPc, appSettings, meshes, terrain, water, heightRange, cameraBounds,
                 lightDirection>>
  /\ UNCHANGED <<noiseVars, terrainVars, shaderVars, pluginVars, hostVars>>

\* The reset button: the handler reset.
Reset ==
  /\ appPc = "running"
  /\ Len(meshes) + 2 <= MaxMeshes
  /\ appSettings' = UpdateSettings("part_003", AppDefaultSettings)
  /\ storedSettings' = JsonStringify(appSettings')
  /\ heightRange' = <<0, AppDefaultSettings.terrainHeight>>
  /\ meshes' = WaterReplaced(TerrainReplaced(meshes, terrain), water)
  /\ terrain' = Len(meshes) + 1
  /\ water' = Len(meshes) + 2
  /\ cameraBounds' = FDiv(AppDefaultSettings.terrainWidth, 2 * ONE)
  /\ lastEvent' = [property |-> "reset", terrain |-> terrain, meshCount |-> Len(meshes)]
  /\ UNCHANGED <<appPc, lightDirection>>
  /\ UNCHANGED <<noiseVars, terrainVars, shaderVars, pluginVars, hostVars>>

\* The module's top-level code has run on the stored item, init() has not.
AppLoaded(loaded) ==
  /\ appPc = "constructed"
  /\ appSettings = loaded.settings
  /\ meshes = <<>>
  /\ terrain = 0
  /\ water = 0
  /\ heightRange = <<0, ONE>>
  /\ cameraBounds = 0
  /\ lightDirection = LightVector(AppDefaultSettings.lightDirection)
  /\ storedSettings = loaded.item
  /\ lastEvent = [property |-> "none", terrain |-> 0, meshCount |-> 0]

AppIdle == AppLoaded(LoadSettings("part_003", NoItem))

\* ------------------------------------------------------- the camera input

MaxAttach == 2
MaxCameraEvents == 3

\* a >= b and a <= b as JavaScript compares: false when either side is NaN.
FGe(a, b) == a # NaN /\ b # NaN /\ ~FLt(a, b)
FLe(a, b) == FGe(b, a)

\* Math.sqrt of a whole number, rounded down.
RECURSIVE SqrtIn(_, _, _)
SqrtIn(n, lo, hi) ==
  IF lo >= hi THEN lo
  ELSE LET mid == (lo + hi + 1) \div 2
       IN IF mid * mid <= n THEN SqrtIn(n, mid, hi) ELSE SqrtIn(n, lo, mid - 1)

SqrtFloor(n) == SqrtIn(n, 0, Min2(n, 40 * ONE))

\* BABYLON.Vector3, of finite components.
Vector3(a, b, c) == [x |-> a, y |-> b, z |-> c]
VAdd(a, b) == Vector3(a.x + b.x, a.y + b.y, a.z + b.z)
VSubtract(a, b) == Vector3(a.x - b.x, a.y - b.y, a.z - b.z)
VScale(a, k) == Vector3(FMul(a.x, k), FMul(a.y, k), FMul(a.z, k))
VLength(a) == SqrtFloor(a.x * a.x + a.y * a.y + a.z * a.z)
VNormalize(a) ==
  LET len == VLength(a)
  IN IF len = 0 \/ len = ONE THEN a
     ELSE Vector3(TruncDiv(a.x * ONE, len), TruncDiv(a.y * ONE, len),
                  TruncDiv(a.z * ONE, len))
VCross(a, b) ==
  Vector3(FMul(a.y, b.z) - FMul(a.z, b.y),
          FMul(a.z, b.x) - FMul(a.x, b.z),
          FMul(a.x, b.y) - FMul(a.y, b.x))

UpVector == Vector3(0, ONE, 0)

Bounds(minX, maxX, minZ, maxZ) ==
  [minX |-> minX, maxX |-> maxX, minZ |-> minZ, maxZ |-> maxZ]

RTS_DEFAULT_OPTIONS ==
  [dragSpeed |-> ONE \div 20,
   edgeScrollEnabled |-> FALSE,
   edgeScrollSpeed |-> (7 * ONE) \div 10,
   edgeScrollThreshold |-> 20,
   bounds |-> Bounds(NegInf, Inf, NegInf, Inf)]

\* The options the input is constructed with.
RtsOptions ==
  { [RTS_DEFAULT_OPTIONS EXCEPT !.edgeScrollEnabled = e, !.bounds = b] :
      e \in BOOLEAN,
      b \in {RTS_DEFAULT_OPTIONS.bounds, Bounds(-2 * ONE, 2 * ONE, -2 * ONE, 2 * ONE)} }

\* The bounds setBounds is called with: the terrain's square, a square that
\* excludes the origin, and one whose limits are the wrong way round.
BoundsChoices ==
  { Bounds(-2 * ONE, 2 * ONE, -2 * ONE, 2 * ONE),
    Bounds(ONE, 2 * ONE, ONE, 2 * ONE),
    Bounds(ONE, -1 * ONE, ONE, -1 * ONE) }

\* Targets the camera is created with; the position lies behind and above.
CameraTargets == {Vector3(0, 0, 0), Vector3(3 * ONE, 0, 0)}
CameraAt(target) ==
  [position |-> VAdd(target, Vector3(0, 3 * ONE, -4 * ONE)), target |-> target]

\* canvas.getBoundingClientRect(), in pixels.
CanvasRect == [left |-> 0, top |-> 0, right |-> 100, bottom |-> 100]

\* Pointer positions of the events, in pixels.
ClientPositions == {<<50, 50>>, <<110, 30>>}
PointerTypes == {"POINTERDOWN", "POINTERMOVE", "POINTERUP"}
Buttons == {0, 2}
PointerInfo(type, button, at) ==
  [type |-> type, button |-> button, clientX |-> at[1], clientY |-> at[2]]

AlwaysInBounds(bounds, position) == TRUE

IsInBounds(bounds, position) ==
  /\ FGe(position.x, bounds.minX)
  /\ FLe(position.x, bounds.maxX)
  /\ FGe(position.z, bounds.minZ)
  /\ FLe(position.z, bounds.maxZ)

Forward(cam) == VNormalize(VSubtract(cam.target, cam.position))
Right(cam) == VCross(Forward(cam), UpVector)

\* The movement of a drag by dx, dy pixels.
DragMovement(in, cam, dx, dy) ==
  LET movement ==
        VAdd(VScale(Right(cam), (0 - dx) * in.dragSpeed),
             VScale(Forward(cam), (0 - dy) * in.dragSpeed))
      opposite == VScale(movement, 0 - ONE)
  IN [opposite EXCEPT !.y = 0]

\* The movement of one edge-scroll tick with the cursor at cursorPosition.
EdgeDx(in) ==
  IF in.cursorPosition[1] < CanvasRect.left + in.edgeThreshold
    THEN in.edgeScrollSpeed
  ELSE IF in.cursorPosition[1] > CanvasRect.right - in.edgeThreshold
    THEN 0 - in.edgeScrollSpeed
  ELSE 0

EdgeDz(in) ==
  IF in.cursorPosition[2] < CanvasRect.top + in.edgeThreshold
    THEN in.edgeScrollSpeed
  ELSE IF in.cursorPosition[2] > CanvasRect.bottom - in.edgeThreshold
    THEN 0 - in.edgeScrollSpeed
  ELSE 0

EdgeMovement(in, cam) ==
  LET movement ==
        VAdd(VScale(Right(cam), EdgeDx(in)), VScale(Forward(cam), EdgeDz(in)))
  IN [movement EXCEPT !.y = 0]

\* position.addInPlace(movement); target.addInPlace(movement), if in bounds.
MoveCamera(in, cam, movement) ==
  IF IsInBounds(in.bounds, VAdd(cam.target, movement))
    THEN [position |-> VAdd(cam.position, movement),
          target |-> VAdd(cam.target, movement)]
  ELSE cam

\* The handlers work on the pair s of the input (s.in) and its camera (s.cam).
OnPointerDown(s, info) ==
  IF info.button = 2
    THEN [s EXCEPT !.in.isDragging = TRUE,
                   !.in.previousPosition = <<info.clientX, info.clientY>>]
  ELSE s

OnPointerMove(s, info) ==
  IF ~s.in.isDragging \/ s.in.previousPosition = <<>> \/ ~s.in.camera THEN s
  ELSE LET dx == info.clientX - s.in.previousPosition[1]
           dy == info.clientY - s.in.previousPosition[2]
       IN [in |-> [s.in EXCEPT !.previousPosition = <<info.clientX, info.clientY>>],
           cam |-> MoveCamera(s.in, s.cam, DragMovement(s.in, s.cam, dx, dy))]

OnPointerUpIgnored(s, info) == s

OnPointerUp(s, info) ==
  IF info.button = 2
    THEN [s EXCEPT !.in.isDragging = FALSE, !.in.previousPosition = <<>>]
  ELSE s

\* The observer attachControl adds to scene.onPointerObservable.
PointerObserver(s, info) ==
  IF ~s.in.camera THEN s
  ELSE IF info.type = "POINTERDOWN" THEN OnPointerDown(s, info)
  ELSE IF info.type = "POINTERMOVE" THEN OnPointerMove(s, info)
  ELSE IF info.type = "POINTERUP" THEN OnPointerUp(s, info)
  ELSE s

\* The observable calls each of its n observers with the event.
RECURSIVE NotifyObservers(_, _, _)
NotifyObservers(s, info, n) ==
  IF n = 0 THEN s ELSE NotifyObservers(PointerObserver(s, info), info, n - 1)

\* The callback _startEdgeScrolling gives to window.setInterval.
EdgeScrollCallback(s) ==
  IF ~s.in.edgeScrollEnabled THEN s
  ELSE IF EdgeDx(s.in) # 0 \/ EdgeDz(s.in) # 0
    THEN [s EXCEPT !.cam = MoveCamera(s.in, s.cam, EdgeMovement(s.in, s.cam))]
  ELSE s

\* Math.max and Math.min of two numbers.
MathMax2(a, b) == IF a = NaN \/ b = NaN THEN NaN ELSE IF FGt(b, a) THEN b ELSE a
MathMin2(a, b) == IF a = NaN \/ b = NaN THEN NaN ELSE IF FLt(b, a) THEN b ELSE a

Clamp(v, lo, hi) == MathMin2(MathMax2(v, lo), hi)

CameraEventOf(kind, info) ==
  [kind |-> kind, info |-> info, in |-> rtsInput, cam |-> rtsCamera]

NoPointerInfo == PointerInfo("none", 0, <<0, 0>>)

CameraHandled(kind, info) ==
  /\ cameraEvents < MaxCameraEvents
  /\ cameraEvents' = cameraEvents + 1
  /\ cameraEvent' = CameraEventOf(kind, info)

\* camera.inputs.add(input) of a camera that is attached to the canvas: the
\* input gets its camera and is attached.
AttachControlBody ==
  /\ pointerObservers' = pointerObservers + 1
  /\ mousemoveListeners' = mousemoveListeners + 1
  /\ attachCalls' = attachCalls + 1
  /\ IF rtsInput'.camera
       THEN /\ timerIds' = timerIds + 1
            /\ intervals' = intervals \cup {timerIds + 1}
       ELSE UNCHANGED <<timerIds, intervals>>

InputsAdd ==
  /\ ~rtsInput.camera
  /\ attachCalls < MaxAttach
  /\ rtsInput' = [rtsInput EXCEPT !.camera = TRUE, !.edgeScrollInterval = timerIds + 1]
  /\ AttachControlBody
  /\ cameraEvent' = CameraEventOf("add", NoPointerInfo)
  /\ UNCHANGED <<rtsCamera, cameraEvents>>
  /\ inBoundsAtAdd' = IsInBounds(rtsInput.bounds, rtsCamera.target)
  /\ UNCHANGED nonCameraVars

AttachControl ==
  /\ attachCalls < MaxAttach
  /\ rtsInput' =
       IF rtsInput.camera
         THEN [rtsInput EXCEPT !.edgeScrollInterval = timerIds + 1]
       ELSE rtsInput
  /\ AttachControlBody
  /\ cameraEvent' = CameraEventOf("attachControl", NoPointerInfo)
  /\ UNCHANGED <<rtsCamera, cameraEvents>>
  /\ UNCHANGED inBoundsAtAdd
  /\ UNCHANGED nonCameraVars

\* removeEventListener is given a new function, which is no registered listener.
DetachControl ==
  /\ intervals' = intervals \ {rtsInput.edgeScrollInterval}
  /\ rtsInput' = [rtsInput EXCEPT !.edgeScrollInterval = 0]
  /\ cameraEvent' = CameraEventOf("detachControl", NoPointerInfo)
  /\ UNCHANGED <<rtsCamera, pointerObservers, mousemoveListeners, timerIds,
                 attachCalls, cameraEvents>>
  /\ UNCHANGED inBoundsAtAdd
  /\ UNCHANGED nonCameraVars

SetBounds(bounds) ==
  /\ rtsInput' = [rtsInput EXCEPT !.bounds = bounds]
  /\ rtsCamera' =
       IF rtsInput.camera /\ ~IsInBounds(bounds, rtsCamera.target)
         THEN [rtsCamera EXCEPT
                 !.target = Vector3(Clamp(rtsCamera.target.x, bounds.minX, bounds.maxX),
                                    rtsCamera.target.y,
                                    Clamp(rtsCamera.target.z, bounds.minZ, bounds.maxZ))]
       ELSE rtsCamera
  /\ CameraHandled("setBounds", NoPointerInfo)
  /\ UNCHANGED <<pointerObservers, mousemoveListeners, intervals, timerIds, attachCalls>>
  /\ UNCHANGED inBoundsAtAdd
  /\ UNCHANGED nonCameraVars

\* A pointer event of the scene reaches every registered observer.
PointerEvent(info) ==
  /\ pointerObservers > 0
  /\ \E s \in {NotifyObservers([in |-> rtsInput, cam |-> rtsCamera], info,
                                pointerObservers)} :
       /\ rtsInput' = s.in
       /\ rtsCamera' = s.cam
  /\ CameraHandled("pointer", info)
  /\ UNCHANGED <<pointerObservers, mousemoveListeners, intervals, timerIds, attachCalls>>
  /\ UNCHANGED inBoundsAtAdd
  /\ UNCHANGED nonCameraVars

\* A mousemove on the canvas reaches every registered listener.
CanvasMouseMove(at) ==
  /\ mousemoveListeners > 0
  /\ at # rtsInput.cursorPosition
  /\ rtsInput' = [rtsInput EXCEPT !.cursorPosition = at]
  /\ CameraHandled("mousemove", NoPointerInfo)
  /\ UNCHANGED <<rtsCamera, pointerObservers, mousemoveListeners, intervals,
                 timerIds, attachCalls>>
  /\ UNCHANGED inBoundsAtAdd
  /\ UNCHANGED nonCameraVars

\* One of the live intervals fires.
EdgeScrollTick ==
  /\ intervals # {}
  /\ \E s \in {EdgeScrollCallback([in |-> rtsInput, cam |-> rtsCamera])} :
       /\ rtsInput' = s.in
       /\ rtsCamera' = s.cam
  /\ CameraHandled("tick", NoPointerInfo)
  /\ UNCHANGED <<pointerObservers, mousemoveListeners, intervals, timerIds, attachCalls>>
  /\ UNCHANGED inBoundsAtAdd
  /\ UNCHANGED nonCameraVars

\* new RTSCameraInput(canvas, scene, options), and a camera with this target.
CameraConstructed(options, target) ==
  /\ rtsInput =
       [camera |-> FALSE,
        isDragging |-> FALSE,
        previousPosition |-> <<>>,
        dragSpeed |-> options.dragSpeed,
        edgeScrollEnabled |-> options.edgeScrollEnabled,
        edgeScrollSpeed |-> options.edgeScrollSpeed,
        edgeThreshold |-> options.edgeScrollThreshold,
        cursorPosition |-> <<0, 0>>,
        edgeScrollInterval |-> 0,
        bounds |-> options.bounds]
  /\ rtsCamera = CameraAt(target)
  /\ pointerObservers = 0
  /\ mousemoveListeners = 0
  /\ intervals = {}
  /\ timerIds = 0
  /\ attachCalls = 0
  /\ cameraEvents = 0
  /\ inBoundsAtAdd = FALSE
  /\ cameraEvent = CameraEventOf("none", NoPointerInfo)

CameraIdle == CameraConstructed(RTS_DEFAULT_OPTIONS, Vector3(0, 0, 0))

\* ------------------------------------------------- the colour-map canvas

MaxRows == 2
MaxCols == 3

\* COLOR_MAPS.MOISTURE, by its sizes; a column's colour is named by its place.
MoistureRows ==
  << [height |-> ONE, cols |-> <<2 * ONE, 2 * ONE, 5 * ONE, 10 * ONE>>],
     [height |-> ONE, cols |-> <<ONE, ONE, ONE>>],
     [height |-> 2 * ONE, cols |-> <<ONE, 2 * ONE, 2 * ONE, ONE>>],
     [height |-> ONE, cols |-> <<ONE, ONE, 2 * ONE, 2 * ONE>>],
     [height |-> ONE \div 4, cols |-> <<ONE>>],
     [height |-> (3 * ONE) \div 4, cols |-> <<ONE>>] >>

RelativeSizes == {ONE, 2 * ONE}

SeqsUpTo(S, n) == UNION { [1..k -> S] : k \in 1..n }

RowConfigs ==
  { [height |-> h, cols |-> c] : h \in RelativeSizes, c \in SeqsUpTo(RelativeSizes, MaxCols) }

ColorMapConfigs == SeqsUpTo(RowConfigs, MaxRows) \cup {MoistureRows}

\* Canvases the function is given: a square one and one that is not. For these
\* sizes the sums below are exact in the model's arithmetic for the same
\* configurations as in double arithmetic.
CanvasSizes ==
  { [width |-> 100 * ONE, height |-> 100 * ONE],
    [width |-> 100 * ONE, height |-> 50 * ONE] }

\* rows.reduce((sum, row) => sum + row.height, 0) over the first n rows.
RECURSIVE SumOfHeights(_, _)
SumOfHeights(rows, n) ==
  IF n = 0 THEN 0 ELSE FAdd(SumOfHeights(rows, n - 1), rows[n].height)

\* cols.reduce((sum, col) => sum + col.width, 0) over the first n columns.
RECURSIVE SumOfWidths(_, _)
SumOfWidths(cols, n) ==
  IF n = 0 THEN 0 ELSE FAdd(SumOfWidths(cols, n - 1), cols[n])

TotalRowsHeight(rows) == SumOfHeights(rows, Len(rows))
TotalColWidth(row) == SumOfWidths(row.cols, Len(row.cols))

RowHeight(size, total, extent) == FMul(FDiv(size, total), extent)
ColWidth(size, total, extent) == FMul(FDiv(size, total), extent)

RenderColorMapToCanvas(size, mapConfig) ==
  /\ canvasPc = "idle"
  /\ canvasPc' = "cols"
  /\ canvas' = size
  /\ colorMapConfig' = mapConfig
  /\ rowIndex' = 1
  /\ colIndex' = 1
  /\ xOffset' = 0
  /\ yOffset' = 0
  /\ fillRects' = <<>>
  /\ UNCHANGED nonCanvasVars

\* One iteration of row.cols.forEach.
FillRect ==
  /\ canvasPc = "cols"
  /\ rowIndex <= Len(colorMapConfig)
  /\ colIndex <= Len(colorMapConfig[rowIndex].cols)
  /\ LET row == colorMapConfig[rowIndex]
         rowHeight == RowHeight(row.height, TotalRowsHeight(colorMapConfig), canvas.height)
         colWidth == ColWidth(row.cols[colIndex], TotalColWidth(row), canvas.width)
     IN /\ fillRects' =
             Append(fillRects,
                    [x |-> xOffset, y |-> yOffset, w |-> colWidth, h |-> rowHeight,
                     row |-> rowIndex, col |-> colIndex])
        /\ xOffset' = FAdd(xOffset, colWidth)
  /\ colIndex' = colIndex + 1
  /\ UNCHANGED <<canvasPc, canvas, colorMapConfig, rowIndex, yOffset>>
  /\ UNCHANGED nonCanvasVars

\* The end of one iteration of config.rows.forEach, and the start of the next.
NextRow ==
  /\ canvasPc = "cols"
  /\ rowIndex <= Len(colorMapConfig)
  /\ colIndex > Len(colorMapConfig[rowIndex].cols)
  /\ yOffset' =
       FAdd(yOffset,
            RowHeight(colorMapConfig[rowIndex].height,
                      TotalRowsHeight(colorMapConfig), canvas.height))
  /\ rowIndex' = rowIndex + 1
  /\ colIndex' = 1
  /\ xOffset' = 0
  /\ canvasPc' = IF rowIndex = Len(colorMapConfig) THEN "done" ELSE "cols"
  /\ UNCHANGED <<canvas, colorMapConfig, fillRects>>
  /\ UNCHANGED nonCanvasVars

\* The canvas is dropped; another one can be rendered.
CanvasDropped ==
  /\ canvasPc = "done"
  /\ canvasPc' = "idle"
  /\ canvas' = [width |-> 0, height |-> 0]
  /\ colorMapConfig' = <<>>
  /\ rowIndex' = 1
  /\ colIndex' = 1
  /\ xOffset' = 0
  /\ yOffset' = 0
  /\ fillRects' = <<>>
  /\ UNCHANGED nonCanvasVars

CanvasIdle ==
  /\ canvasPc = "idle"
  /\ canvas = [width |-> 0, height |-> 0]
  /\ colorMapConfig = <<>>
  /\ rowIndex = 1
  /\ colIndex = 1
  /\ xOffset = 0
  /\ yOffset = 0
  /\ fillRects = <<>>

\* ------------------------------------------------- the plugin with the maps

MaxPluginCalls == 3

MapPluginState ==
  [plugin |-> mapPlugin, enableCalls |-> enableCalls, dirtyMarks |-> dirtyMarks,
   definesWritten |-> definesWritten, uniformUpdates |-> uniformUpdates]

MapPluginCall(kind, argument) ==
  mapPluginEvent' = [kind |-> kind, argument |-> argument, before |-> MapPluginState]

\* new HeightColorMaterialPlugin(material): super(...), then the field
\* initialisers, then this._enable(true).
MapPluginConstruct ==
  /\ mapPluginPc = "none"
  /\ mapPluginPc' = "constructed"
  /\ mapPlugin' = [isEnabled |-> FALSE, minHeight |-> 0, maxHeight |-> ONE]
  /\ enableCalls' = Append(enableCalls, TRUE)
  /\ MapPluginCall("constructor", FALSE)
  /\ UNCHANGED <<dirtyMarks, definesWritten, uniformUpdates>>
  /\ UNCHANGED nonMapPluginVars

\* set isEnabled(enabled)
MapPluginSetIsEnabled(enabled) ==
  /\ mapPluginPc = "constructed"
  /\ Len(enableCalls) < MaxPluginCalls
  /\ IF mapPlugin.isEnabled = enabled
       THEN UNCHANGED <<mapPlugin, dirtyMarks, enableCalls>>
       ELSE /\ mapPlugin' = [mapPlugin EXCEPT !.isEnabled = enabled]
            /\ dirtyMarks' = dirtyMarks + 1
            /\ enableCalls' = Append(enableCalls, enabled)
  /\ MapPluginCall("isEnabled", enabled)
  /\ UNCHANGED <<mapPluginPc, definesWritten, uniformUpdates>>
  /\ UNCHANGED nonMapPluginVars

\* setHeightRange(minHeight, maxHeight)
MapPluginSetHeightRange(range) ==
  /\ mapPluginPc = "constructed"
  /\ mapPlugin' = [mapPlugin EXCEPT !.minHeight = range[1], !.maxHeight = range[2]]
  /\ MapPluginCall("setHeightRange", FALSE)
  /\ UNCHANGED <<mapPluginPc, enableCalls, dirtyMarks, definesWritten, uniformUpdates>>
  /\ UNCHANGED nonMapPluginVars

\* prepareDefines(defines, scene, mesh)
MapPluginPrepareDefines ==
  /\ mapPluginPc = "constructed"
  /\ definesWritten' = <<mapPlugin.isEnabled>>
  /\ MapPluginCall("prepareDefines", FALSE)
  /\ UNCHANGED <<mapPluginPc, mapPlugin, enableCalls, dirtyMarks, uniformUpdates>>
  /\ UNCHANGED nonMapPluginVars

\* bindForSubMesh(uniformBuffer, scene, engine, subMesh)
MapPluginBindForSubMesh ==
  /\ mapPluginPc = "constructed"
  /\ uniformUpdates < MaxPluginCalls
  /\ uniformUpdates' = IF mapPlugin.isEnabled THEN uniformUpdates + 1 ELSE uniformUpdates
  /\ MapPluginCall("bindForSubMesh", FALSE)
  /\ UNCHANGED <<mapPluginPc, mapPlugin, enableCalls, dirtyMarks, definesWritten>>
  /\ UNCHANGED nonMapPluginVars

\* No plugin of this class exists yet.
MapPluginIdle ==
  /\ mapPluginPc = "none"
  /\ mapPlugin = [isEnabled |-> FALSE, minHeight |-> 0, maxHeight |-> ONE]
  /\ enableCalls = <<>>
  /\ dirtyMarks = 0
  /\ definesWritten = <<>>
  /\ uniformUpdates = 0
  /\ mapPluginEvent =
       [kind |-> "none", argument |-> FALSE,
        before |-> [plugin |-> [isEnabled |-> FALSE, minHeight |-> 0, maxHeight |-> ONE],
                    enableCalls |-> <<>>, dirtyMarks |-> 0, definesWritten |-> <<>>,
                    uniformUpdates |-> 0]]

\* --------------------------------------------------------- the XY controller

MaxXYCalls == 4

\* area.getBoundingClientRect(), in pixels.
AreaRect == [left |-> 0, top |-> 0, right |-> 100, bottom |-> 100]

\* Where the mouse is when an event fires: inside the area and outside it.
MousePositions == {<<50, 50>>, <<0, 100>>, <<150, -20>>}

\* map(value, fromMin, fromMax, toMin, toMax)
XYMap(value, fromMin, fromMax, toMin, toMax) ==
  FAdd(toMin, FMul(FSub(toMax, toMin), FDiv(FSub(value, fromMin), FSub(fromMax, fromMin))))

\* normalize(value, min, max), value, min and max in pixels.
XYNormalize(value, min, max) ==
  LET t == FDiv((value - min) * ONE, (max - min) * ONE)
  IN XYMap(MathMin2(MathMax2(0, t), ONE), 0, ONE, -ONE, ONE)

\* window.addEventListener that registers the listener once more each time.
AddEventListenerAgain(listeners, listener) == Append(listeners, listener)

\* window.addEventListener(type, listener): a listener already registered for
\* the type is not registered again.
AddEventListener(listeners, listener) ==
  IF \E i \in 1..Len(listeners) : listeners[i] = listener THEN listeners
  ELSE Append(listeners, listener)

\* window.removeEventListener(type, listener)
RemoveEventListener(listeners, listener) ==
  SelectSeq(listeners, LAMBDA l : l # listener)

Registered(listeners, listener) ==
  Len(SelectSeq(listeners, LAMBDA l : l = listener))

XYState == [value |-> xyValue, down |-> xyDown, calls |-> xyCalls]

\* The controller as it is after one call of onMouseMove, s its state before.
OnMouseMove(s, at) ==
  [s EXCEPT !.value = <<XYNormalize(at[1], AreaRect.left, AreaRect.right),
                        XYNormalize(at[2], AreaRect.bottom, AreaRect.top)>>,
            !.calls = Append(s.calls, "$onChange")]

RECURSIVE OnMouseMoveTimes(_, _, _)
OnMouseMoveTimes(s, at, n) ==
  IF n = 0 THEN s ELSE OnMouseMoveTimes(OnMouseMove(s, at), at, n - 1)

\* The listeners and the calls after n calls of onMouseUp.
RECURSIVE OnMouseUpTimes(_, _, _)
OnMouseUpTimes(listeners, calls, n) ==
  IF n = 0 THEN [listeners |-> listeners, calls |-> calls]
  ELSE OnMouseUpTimes(
         RemoveEventListener(RemoveEventListener(listeners, "onMouseMove"), "onMouseUp"),
         Append(calls, "$onFinishChange"), n - 1)

\* mousedown on the handle.
HandleMouseDown ==
  /\ windowListeners' =
       AddEventListener(AddEventListener(windowListeners, "onMouseMove"), "onMouseUp")
  /\ xyDown' = TRUE
  /\ xyCalls' = IF xyDown THEN xyCalls ELSE <<>>
  /\ xyEvent' = [type |-> "mousedown", before |-> XYState]
  /\ UNCHANGED xyValue
  /\ UNCHANGED nonXYVars

\* mousemove on the window: every listener registered for it is called.
WindowMouseMove(at) ==
  /\ Len(xyCalls) + Registered(windowListeners, "onMouseMove") <= MaxXYCalls
  /\ \E s \in {OnMouseMoveTimes(XYState, at, Registered(windowListeners, "onMouseMove"))} :
       /\ xyValue' = s.value
       /\ xyCalls' = s.calls
  /\ xyEvent' = [type |-> "mousemove", before |-> XYState]
  /\ UNCHANGED <<windowListeners, xyDown>>
  /\ UNCHANGED nonXYVars

\* mouseup on the window: every listener registered for it is called.
WindowMouseUp ==
  /\ \E r \in {OnMouseUpTimes(windowListeners, xyCalls,
                              Registered(windowListeners, "onMouseUp"))} :
       /\ windowListeners' = r.listeners
       /\ xyCalls' = r.calls
  /\ xyDown' = FALSE
  /\ xyEvent' = [type |-> "mouseup", before |-> XYState]
  /\ UNCHANGED xyValue
  /\ UNCHANGED nonXYVars

\* new XYController(parent, settings, "lightDirection"): no drag in progress.
XYIdle ==
  /\ windowListeners = <<>>
  /\ xyValue = AppDefaultSettings.lightDirection
  /\ xyDown = FALSE
  /\ xyCalls = <<>>
  /\ xyEvent = [type |-> "none",
                before |-> [value |-> AppDefaultSettings.lightDirection,
                            down |-> FALSE, calls |-> <<>>]]

\* ----------------------------------------------------------- nextPowerOfTwo

MaxSmallValue == 20

\* The arguments: small values, and values around the default max.
PowValues == 0..MaxSmallValue \cup {1000, 1024, 1025, 2047, 2048, 2049, 5000}
PowMaxes == {2, 4, 16, MaxHeightMapSide}

LoopContinuesAtEqual(result, value) == result <= value

\* while (result < value)
LoopContinues(result, value) == result < value

\* nextPowerOfTwo(value, max): value = Math.min(max, value); let result = 2
PowCall(value, max) ==
  /\ powPc = "idle"
  /\ powPc' = "loop"
  /\ powArgs' = [value |-> value, max |-> max]
  /\ powValue' = Min2(max, value)
  /\ powResult' = 2
  /\ powTurns' = 0
  /\ UNCHANGED nonPowVars

\* result *= 2
PowDouble ==
  /\ powPc = "loop"
  /\ LoopContinues(powResult, powValue)
  /\ powResult' = powResult * 2
  /\ powTurns' = powTurns + 1
  /\ UNCHANGED <<powPc, powArgs, powValue>>
  /\ UNCHANGED nonPowVars

\* return Math.min(max, result)
PowReturn ==
  /\ powPc = "loop"
  /\ ~LoopContinues(powResult, powValue)
  /\ powPc' = "returned"
  /\ powResult' = Min2(powArgs.max, powResult)
  /\ UNCHANGED <<powArgs, powValue, powTurns>>
  /\ UNCHANGED nonPowVars

\* The caller takes the result.
PowDone ==
  /\ powPc = "returned"
  /\ powPc' = "idle"
  /\ powArgs' = [value |-> 0, max |-> MaxHeightMapSide]
  /\ powValue' = 0
  /\ powResult' = 2
  /\ powTurns' = 0
  /\ UNCHANGED nonPowVars

PowIdle ==
  /\ powPc = "idle"
  /\ powArgs = [value |-> 0, max |-> MaxHeightMapSide]
  /\ powValue = 0
  /\ powResult = 2
  /\ powTurns = 0

HostIdle ==
  CameraIdle /\ CanvasIdle /\ SettingsIdle /\ MapPluginIdle /\ XYIdle /\ PowIdle

\* ------------------------------------------------------- the specification

\* No call in progress and no result held.
NoiseIdle ==
  /\ pc = "idle"
  /\ width = 1
  /\ height = 1
  /\ config = Restrict(DEFAULT_NOISE_CONFIG, {})
  /\ rng = 0
  /\ perm = [i \in 0..(PermSize - 1) |-> i]
  /\ data = [i \in {} |-> 0]
  /\ fillWrites = [i \in {} |-> 0]
  /\ cellOf = [i \in {} |-> <<-1, -1>>]
  /\ x = 0
  /\ y = 0
  /\ highestValue = 0
  /\ lowestValue = 0
  /\ error = "none"
  /\ prevOutcomes = {}

TerrainIdle ==
  /\ tpc = "idle"
  /\ settings = DefaultSettings
  /\ heightMap = [i \in {} |-> 0]
  /\ positions = <<>>
  /\ indices = <<>>
  /\ uvs = <<>>
  /\ trianglesAt = [c \in {} |-> 0]
  /\ tx = 0
  /\ ty = 0
  /\ terrainError = "none"

Init ==
  /\ aleaThrows \in BOOLEAN
  /\ noiseNaN \in BOOLEAN
  /\ NoiseIdle
  /\ TerrainIdle
  /\ ShaderIdle
  /\ PluginIdle
  /\ AppIdle
  /\ HostIdle

Next ==
  \/ \E w \in Dims, h \in Dims, cfg \in Configs : Call(w, h, cfg)
  \/ CallAgain
  \/ Discard
  \/ FillCell
  \/ Rescale
  \/ \E s \in TerrainSettings : CreateTerrain(s)
  \/ HeightMapReturned
  \/ TerrainVertex
  \/ TerrainUV
  \/ TerrainFinish
  \/ TerrainDispose

Spec == Init /\ [][Next]_vars

\* The fragment programs alone: no generation is in progress.
GenerationIdle ==
  /\ aleaThrows = FALSE
  /\ noiseNaN = FALSE
  /\ NoiseIdle
  /\ TerrainIdle

ShaderInit ==
  /\ GenerationIdle
  /\ ShaderIdle
  /\ PluginIdle
  /\ AppIdle
  /\ HostIdle

ShaderNext ==
  \/ \E prog \in Programs, u \in UniformSets : \E h \in FragmentHeights(u) :
       DrawFragment(prog, u, h)
  \/ FragmentMain
  \/ PluginFragment
  \/ FragmentDone

ShaderSpec == ShaderInit /\ [][ShaderNext]_vars

\* The material plugins alone, in either revision of the class.
PluginInit ==
  /\ GenerationIdle
  /\ ShaderIdle
  /\ \E class \in PluginClasses : PluginsConstructed(class)
  /\ AppIdle
  /\ HostIdle

PluginNext ==
  \/ \E q \in Instances, enabled \in BOOLEAN : SetEnabled(q, enabled)
  \/ \E q \in Instances, a \in CallerColors, b \in CallerColors, c \in CallerColors :
       SetColors(q, a, b, c)
  \/ \E q \in Instances, range \in PluginRanges : SetHeightRange(q, range)
  \/ \E c \in CallerColors, value \in Palette : MutateCallerColor(c, value)
  \/ \E q \in Instances, value \in Palette : MutateLowColor(q, value)
  \/ \E q \in Instances : BindForSubMesh(q)

PluginSpec == PluginInit /\ [][PluginNext]_vars

\* The App alone: its start, the events of the GUI and the reset button.
AppInit ==
  /\ GenerationIdle
  /\ ShaderIdle
  /\ PluginIdle
  /\ \E item \in AppStartItems : AppLoaded(LoadSettings("part_003", item))
  /\ HostIdle

AppNext ==
  \/ AppStart
  \/ \E property \in GuiProperties : \E value \in GuiValues(property) :
       FinishChange(property, value)
  \/ FinishChangeOfLight
  \/ Reset

AppSpec == AppInit /\ [][AppNext]_vars

\* The camera input alone: attaching, detaching and the events it handles.
CameraInit ==
  /\ GenerationIdle
  /\ ShaderIdle
  /\ PluginIdle
  /\ AppIdle
  /\ CanvasIdle
  /\ SettingsIdle
  /\ MapPluginIdle
  /\ XYIdle
  /\ PowIdle
  /\ \E options \in RtsOptions, target \in CameraTargets :
       CameraConstructed(options, target)

CameraNext ==
  \/ InputsAdd
  \/ AttachControl
  \/ DetachControl
  \/ \E bounds \in BoundsChoices : SetBounds(bounds)
  \/ \E type \in PointerTypes, button \in Buttons, at \in ClientPositions :
       PointerEvent(PointerInfo(type, button, at))
  \/ \E at \in ClientPositions : CanvasMouseMove(at)
  \/ EdgeScrollTick

CameraSpec == CameraInit /\ [][CameraNext]_vars

\* renderColorMapToCanvas alone.
CanvasInit ==
  /\ GenerationIdle
  /\ ShaderIdle
  /\ PluginIdle
  /\ AppIdle
  /\ HostIdle

CanvasNext ==
  \/ \E size \in CanvasSizes, mapConfig \in ColorMapConfigs :
       RenderColorMapToCanvas(size, mapConfig)
  \/ FillRect
  \/ NextRow
  \/ CanvasDropped

CanvasSpec == CanvasInit /\ [][CanvasNext]_vars

\* The top-level code of the app module, in either revision.
SettingsInit ==
  /\ GenerationIdle
  /\ ShaderIdle
  /\ PluginIdle
  /\ AppIdle
  /\ CameraIdle
  /\ CanvasIdle
  /\ MapPluginIdle
  /\ XYIdle
  /\ PowIdle
  /\ \E revision \in AppRevisions, item \in StorageItems :
       SettingsUnloaded(revision, item)

SettingsNext ==
  \/ ModuleLoaded
  \/ PageClosed

SettingsSpec == SettingsInit /\ [][SettingsNext]_vars

\* One plugin of the class with the moisture and colour maps.
MapPluginInit ==
  /\ GenerationIdle
  /\ ShaderIdle
  /\ PluginIdle
  /\ AppIdle
  /\ HostIdle

MapPluginNext ==
  \/ MapPluginConstruct
  \/ \E enabled \in BOOLEAN : MapPluginSetIsEnabled(enabled)
  \/ \E range \in PluginRanges : MapPluginSetHeightRange(range)
  \/ MapPluginPrepareDefines
  \/ MapPluginBindForSubMesh

MapPluginSpec == MapPluginInit /\ [][MapPluginNext]_vars

\* One XYController and the mouse.
XYInit ==
  /\ GenerationIdle
  /\ ShaderIdle
  /\ PluginIdle
  /\ AppIdle
  /\ HostIdle

XYNext ==
  \/ HandleMouseDown
  \/ \E at \in MousePositions : WindowMouseMove(at)
  \/ WindowMouseUp

XYSpec == XYInit /\ [][XYNext]_vars

\* nextPowerOfTwo alone, one statement at a time.
PowInit ==
  /\ GenerationIdle
  /\ ShaderIdle
  /\ PluginIdle
  /\ AppIdle
  /\ HostIdle

PowNext ==
  \/ \E value \in PowValues, max \in PowMaxes : PowCall(value, max)
  \/ PowDouble
  \/ PowReturn
  \/ PowDone

PowSpec == PowInit /\ [][PowNext]_vars

\* ------------------------------------------------------------------ claims

Finished == pc \in {"returned", "threw"}

\* createNoise2DData as a function of its arguments and the library build.
NoiseOutcome(w, h, cfg, throws, nanBuild) ==
  IF "seed" \notin DOMAIN cfg /\ throws
    THEN [error |-> "TypeError", data |-> [i \in {} |-> 0]]
    ELSE LET p == CreateNoise2D(randomFunction(cfg, 0)).perm
         IN [error |-> "none",
             data |-> Rescaled(Filled(MergeConfig(cfg), p, w, h, nanBuild))]

\* scale == 0 or octaves < 1 in the effective configuration.
InvalidNoiseConfig(cfg) ==
  LET c == MergeConfig(cfg) IN c["scale"] = 0 \/ c["octaves"] < 1

\* C1: two calls of createNoise2DData with the same width, height and config end
\* the same way: the same exception, or arrays equal element for element.
C1_Deterministic ==
  Finished => \A o \in prevOutcomes : o = Outcome

\* A repeated call has returned an array that is not flat.
C1_Witness ==
  /\ pc = "returned"
  /\ prevOutcomes # {}
  /\ FGt(highestValue, lowestValue)
  /\ Len0(data) > 1

\* C2: when the values before the rescale pass are not all equal, every
\* returned sample lies in [0, 1], the smallest is 0 and the largest is 1.
C2_RangeInvariant ==
  (pc = "returned" /\ FGt(highestValue, lowestValue)) =>
    /\ \A i \in DOMAIN data : data[i] >= 0 /\ data[i] <= ONE
    /\ MathMin(data) = 0
    /\ MathMax(data) = ONE

\* A returned array whose smallest value before the rescale pass was not 0.
C2_Witness ==
  /\ pc = "returned"
  /\ FGt(highestValue, lowestValue)
  /\ FGt(lowestValue, 0)

\* C3: when all values before the rescale pass are equal, no returned sample
\* is NaN.
C3_FlatFieldDefined ==
  (pc = "returned" /\ IsFinite(highestValue) /\ highestValue = lowestValue) =>
    \A i \in DOMAIN data : data[i] # NaN

\* C4: a call with scale == 0 or octaves < 1 fails with an InvalidConfig error:
\* it never returns a height field.
C4_InvalidConfigRejected ==
  pc = "returned" => ~InvalidNoiseConfig(config)

\* C7: every field the caller omits acts as its default: the call ends as the
\* call that gives the omitted fields their DEFAULT_NOISE_CONFIG values.
C7_OmittedFieldsDefault ==
  Finished =>
    Outcome = NoiseOutcome(width, height, MergeConfig(config), aleaThrows, noiseNaN)

\* C8: the array has width * height samples, and when the rescale pass starts
\* the fill loop has written every index exactly once, index i from cell
\* (i mod width, i div width).
C8_FullCoverage ==
  /\ pc \in {"fill", "rescale", "returned"} =>
       /\ DOMAIN data = 0..(width * height - 1)
       /\ \A i \in DOMAIN data : fillWrites[i] <= 1
  /\ pc \in {"rescale", "returned"} =>
       \A i \in DOMAIN data :
         fillWrites[i] = 1 /\ cellOf[i] = <<i % width, i \div width>>

\* The rescale pass is about to run on a grid that is not square.
C8_Witness ==
  /\ pc = "rescale"
  /\ width # height
  /\ \A i \in DOMAIN data : fillWrites[i] = 1

\* createTerrain has emitted all its vertices and triangles.
VerticesDone == tpc \in {"uvs", "finish", "done"}

\* C5: createTerrain called with vertexCount < 2 ends with an InvalidConfig
\* error and returns no mesh.
C5_SmallVertexCountRejected ==
  (tpc = "done" /\ settings.vertexCount < 2) => terrainError = "InvalidConfig"

\* The request being served is invalid: vertexCount < 2, scale == 0 or octaves < 1.
InvalidRequest ==
  IF tpc # "idle"
    THEN settings.vertexCount < 2 \/ InvalidNoiseConfig(TerrainConfig(settings))
    ELSE pc # "idle" /\ InvalidNoiseConfig(config)

\* C6: for an invalid request no height sample is written, no vertex and no
\* index is emitted, and no height field or mesh is returned.
C6_ValidationFirst ==
  InvalidRequest =>
    /\ \A i \in DOMAIN fillWrites : fillWrites[i] = 0
    /\ positions = <<>>
    /\ indices = <<>>
    /\ pc # "returned"
    /\ tpc # "done"

Corner(t, c) ==
  LET i == indices[3 * t + c]
  IN <<i % settings.vertexCount, i \div settings.vertexCount>>

\* C10: for vertexCount = n >= 2 the finished vertex loop has emitted
\* 2 * (n-1)^2 triangles: two in the iteration of every grid vertex with
\* x < n-1 and y < n-1, whose corners are corners of that grid cell, none in
\* the last row or column; the three indices of a triangle are distinct.
C10_TwoTrianglesPerCell ==
  (VerticesDone /\ settings.vertexCount >= 2) =>
    LET n == settings.vertexCount
    IN /\ Len(indices) = 3 * 2 * (n - 1) * (n - 1)
       /\ DOMAIN trianglesAt = (0..(n - 1)) \X (0..(n - 1))
       /\ \A c \in DOMAIN trianglesAt :
            trianglesAt[c] = IF c[1] < n - 1 /\ c[2] < n - 1 THEN 2 ELSE 0
       /\ \A t \in 0..((Len(indices) \div 3) - 1) :
            /\ indices[3 * t + 1] # indices[3 * t + 2]
            /\ indices[3 * t + 1] # indices[3 * t + 3]
            /\ indices[3 * t + 2] # indices[3 * t + 3]
            /\ LET cell == t \div 2
                   cx   == cell % (n - 1)
                   cy   == cell \div (n - 1)
               IN \A c \in 1..3 :
                    /\ Corner(t, c)[1] \in {cx, cx + 1}
                    /\ Corner(t, c)[2] \in {cy, cy + 1}

\* A mesh of 3 x 3 vertices with its 8 triangles has been returned.
C10_Witness ==
  /\ tpc = "done"
  /\ settings.vertexCount = 3
  /\ Len(indices) = 24

\* ------------------------------------------------- claims about the vertices

\* The grid vertices whose position the vertex loop has pushed so far.
EmittedVertices ==
  LET n == settings.vertexCount
  IN { c \in (0..(n - 1)) \X (0..(n - 1)) : c[2] * n + c[1] < Len(positions) \div 3 }

\* X, Y (the height) and Z of the position pushed for grid vertex (gx, gy).
PositionX(gx, gy) == positions[3 * (gy * settings.vertexCount + gx) + 1]

PositionY(gx, gy) == positions[3 * (gy * settings.vertexCount + gx) + 2]

PositionZ(gx, gy) == positions[3 * (gy * settings.vertexCount + gx) + 3]

\* x or y equal to 0 or vertexCount - 1
OnBoundary(n, gx, gy) == gx \in {0, n - 1} \/ gy \in {0, n - 1}

\* C11: for vertexCount >= 2 every emitted vertex on the outer boundary of the
\* grid (x or y equal to 0 or vertexCount - 1) has height exactly 0, whatever
\* the height map holds.
C11_BoundaryHeightZero ==
  settings.vertexCount >= 2 =>
    \A c \in EmittedVertices :
      OnBoundary(settings.vertexCount, c[1], c[2]) => PositionY(c[1], c[2]) = 0

\* The height map sample createTerrain reads for grid vertex (gx, gy), rescaled
\* from [0, 1] to [0, terrainHeight].
RescaledSample(gx, gy) ==
  mapLinear(HeightAt(heightMap, HeightMapIndex(settings, gx, gy)), 0, ONE, 0,
            settings.terrainHeight)

\* C12: the Y of every emitted vertex is its height map sample rescaled from
\* [0, 1] to [0, terrainHeight] and nothing else; with vertexCount = 2,
\* terrainWidth = 10 and terrainHeight = 5 the mesh has 4 vertices, at the
\* world corners (+-5, +-5), and exactly 2 triangles.
C12_HeightIsRescaledSample ==
  settings.vertexCount >= 2 =>
    /\ \A c \in EmittedVertices : PositionY(c[1], c[2]) = RescaledSample(c[1], c[2])
    /\ (VerticesDone /\ settings.vertexCount = 2 /\ settings.terrainWidth = 10 * ONE
          /\ settings.terrainHeight = 5 * ONE) =>
         /\ Len(positions) = 3 * 4
         /\ Len(indices) = 3 * 2
         /\ \A c \in EmittedVertices :
              /\ PositionX(c[1], c[2]) = (IF c[1] = 0 THEN -5 * ONE ELSE 5 * ONE)
              /\ PositionZ(c[1], c[2]) = (IF c[2] = 0 THEN -5 * ONE ELSE 5 * ONE)

\* createTerrain is past its call of createNoise2DData.
MeshStarted == tpc \in {"vertices", "uvs", "finish", "done"}

\* Grid index g of 0..n-1 interpolated linearly from [0, n-1] onto [-w/2, w/2].
Interpolated(g, n, w) == ((g * w) \div (n - 1)) - (w \div 2)

\* C13: createTerrain emits vertexCount^2 positions, in row-major order: the
\* vertex loop at (x, y) has pushed y * vertexCount + x positions, and for
\* vertexCount >= 2 vertex number y * vertexCount + x has world X and Z equal
\* to x and y interpolated linearly from [0, vertexCount - 1] onto
\* [-terrainWidth/2, terrainWidth/2]: index 0 gives -terrainWidth/2 and index
\* vertexCount - 1 gives +terrainWidth/2.
C13_PositionsRowMajor ==
  LET n == settings.vertexCount
      w == settings.terrainWidth
  IN /\ tpc = "vertices" => Len(positions) = 3 * (ty * n + tx)
     /\ VerticesDone => Len(positions) = 3 * n * n
     /\ (MeshStarted /\ n >= 2) =>
          \A c \in EmittedVertices :
            /\ PositionX(c[1], c[2]) = Interpolated(c[1], n, w)
            /\ PositionZ(c[1], c[2]) = Interpolated(c[2], n, w)
            /\ c[1] = 0 => PositionX(c[1], c[2]) = -(w \div 2)
            /\ c[1] = n - 1 => PositionX(c[1], c[2]) = w \div 2
            /\ c[2] = 0 => PositionZ(c[1], c[2]) = -(w \div 2)
            /\ c[2] = n - 1 => PositionZ(c[1], c[2]) = w \div 2

\* A mesh of 3 x 3 vertices is complete: its middle vertex is at the origin and
\* its last vertex at (terrainWidth/2, terrainWidth/2).
C13_Witness ==
  /\ tpc = "done"
  /\ settings.vertexCount = 3
  /\ Len(positions) = 27
  /\ PositionX(1, 1) = 0
  /\ PositionZ(1, 1) = 0
  /\ PositionX(2, 2) = settings.terrainWidth \div 2
  /\ PositionZ(2, 2) = settings.terrainWidth \div 2

\* heightMapWidth (= heightMapHeight) of the call in progress.
HeightMapSide == nextPowerOfTwo(settings.vertexCount)

\* C14: for vertexCount >= 2 the height map has heightMapWidth * heightMapHeight
\* samples, and for every grid vertex (x, y) the index
\* floor(map(y)) * heightMapWidth + floor(map(x)) that createTerrain reads lies
\* in [0, heightMapWidth * heightMapHeight); grid index 0 reads row/column 0 and
\* grid index vertexCount - 1 reads row/column heightMapWidth - 1.
C14_SampleIndexInRange ==
  (MeshStarted /\ settings.vertexCount >= 2) =>
    LET n == settings.vertexCount
    IN /\ DOMAIN heightMap = 0..(HeightMapSide * HeightMapSide - 1)
       /\ \A gx \in 0..(n - 1), gy \in 0..(n - 1) :
            /\ HeightMapIndex(settings, gx, gy) \in DOMAIN heightMap
            /\ HeightMapIndex(settings, gx, gy) >= 0
            /\ HeightMapIndex(settings, gx, gy) < HeightMapSide * HeightMapSide
       /\ SampleCoord(settings, 0, HeightMapSide) = 0
       /\ SampleCoord(settings, n - 1, HeightMapSide) = HeightMapSide - 1

\* The vertex loop is at the last vertex of a 3 x 3 grid, which reads the last
\* sample of the 4 x 4 height map.
C14_Witness ==
  /\ tpc = "vertices"
  /\ settings.vertexCount = 3
  /\ tx = 2
  /\ ty = 2
  /\ HeightMapSide = 4
  /\ HeightMapIndex(settings, tx, ty) = 15

\* createTerrain is past its UV loop.
UVsDone == tpc \in {"finish", "done"}

\* The UV pair pushed for vertex number k.
UVOf(k) == <<uvs[2 * k + 1], uvs[2 * k + 2]>>

\* C15: for vertexCount = n >= 2 the UV loop emits one UV pair per vertex, in
\* the row-major order of the positions: the pair of vertex number y * n + x is
\* (x / (n - 1), y / (n - 1)); every component lies in [0, 1], and the four
\* grid corners get (0, 0), (1, 0), (0, 1) and (1, 1).
C15_UVPerVertex ==
  (tpc \in {"uvs", "finish", "done"} /\ settings.vertexCount >= 2) =>
    LET n == settings.vertexCount
    IN /\ tpc = "uvs" => Len(uvs) = 2 * (ty * n + tx)
       /\ UVsDone => /\ Len(uvs) = 2 * n * n
                     /\ Len(uvs) \div 2 = Len(positions) \div 3
                     /\ UVOf(0) = <<0, 0>>
                     /\ UVOf(n - 1) = <<ONE, 0>>
                     /\ UVOf((n - 1) * n) = <<0, ONE>>
                     /\ UVOf(n * n - 1) = <<ONE, ONE>>
       /\ \A k \in 0..((Len(uvs) \div 2) - 1) :
            /\ UVOf(k) = <<((k % n) * ONE) \div (n - 1), ((k \div n) * ONE) \div (n - 1)>>
            /\ \A i \in 1..2 : UVOf(k)[i] >= 0 /\ UVOf(k)[i] <= ONE

\* A mesh of 3 x 3 vertices is complete: its middle vertex has the UV (0.5, 0.5).
C15_Witness ==
  /\ tpc = "done"
  /\ settings.vertexCount = 3
  /\ Len(uvs) = 18
  /\ UVOf(4) = <<ONE \div 2, ONE \div 2>>

\* ------------------------------------------- claims about the classifier

\* The colour the program in use computed for the fragment.
ShadedColor == IF shader = "fragment.glsl" THEN terrainColor ELSE colorResult

\* The colour the program in use computes for a fragment at height h.
ProgramColor(h) ==
  IF shader = "fragment.glsl" THEN MainTerrainColor(uniforms, h)
  ELSE PluginColorResult(uniforms, h)

\* C16: a fragment whose normalised height is 0 (height = minHeight) is given
\* exactly lowColor, and a fragment whose normalised height is at or above
\* 0.66, in particular 1 (height = maxHeight), is given exactly highColor.
C16_GradientEnds ==
  shaderPc = "shaded" =>
    /\ vPositionY = uniforms.minHeight => ShadedColor = uniforms.lowColor
    /\ (vPositionY - uniforms.minHeight) * 100
         >= 66 * (uniforms.maxHeight - uniforms.minHeight) =>
           ShadedColor = uniforms.highColor

\* The plugin code has shaded a fragment at normalised height 1 with highColor,
\* which differs from the other two colours.
C16_Witness ==
  /\ shaderPc = "shaded"
  /\ shader = "plugin"
  /\ vPositionY = uniforms.maxHeight
  /\ colorResult = uniforms.highColor
  /\ uniforms.highColor # uniforms.midColor
  /\ uniforms.highColor # uniforms.lowColor

\* The blend of the band below the first threshold, and of the band between
\* the thresholds, of the program in use, at normalised height nh.
LowBand(nh) ==
  IF shader = "fragment.glsl" THEN MainLowBand(uniforms, nh) ELSE PluginLowBand(uniforms, nh)

MidBand(nh) ==
  IF shader = "fragment.glsl" THEN MainMidBand(uniforms, nh) ELSE PluginMidBand(uniforms, nh)

\* C17: the colour has no jump at a threshold.  Each blend is linear in the
\* normalised height, so its limit from below at the threshold is its value
\* there: for a fragment exactly at 0.33 the low-to-mid blend gives midColor,
\* the colour the fragment gets from the band that starts there, and for a
\* fragment exactly at 0.66 the mid-to-high blend gives highColor.
C17_NoJumpAtThresholds ==
  shaderPc = "shaded" =>
    LET nh == NormalizedHeight(uniforms, vPositionY)
    IN /\ nh = LowThreshold =>
            /\ ShadedColor = uniforms.midColor
            /\ LowBand(nh) = ShadedColor
       /\ nh = HighThreshold =>
            /\ ShadedColor = uniforms.highColor
            /\ MidBand(nh) = ShadedColor

\* C18: for every height, also below minHeight or above maxHeight, the colour
\* is the colour of the height clamped to [minHeight, maxHeight]: lowColor
\* below minHeight, highColor above maxHeight.
C18_ClampedBeforeBlend ==
  shaderPc = "shaded" =>
    /\ ShadedColor = ProgramColor(clamp(vPositionY, uniforms.minHeight, uniforms.maxHeight))
    /\ vPositionY < uniforms.minHeight => ShadedColor = uniforms.lowColor
    /\ vPositionY > uniforms.maxHeight => ShadedColor = uniforms.highColor

\* ----------------------------------------------- claims about the plugin

\* C19: what an instance binds is determined only by values set on that
\* instance: whatever is set or mutated on another instance, on the class or on
\* the caller's colour objects, bindForSubMesh of instance q uploads the
\* colours and the height range last set on q (those of its construction if
\* none).
C19_NoSharedState ==
  \A q \in Instances : Uploads(q) = setOn[q]

\* -------------------------------------------------- claims about the App

\* The terrain meshes that are not disposed.
UndisposedTerrains ==
  { i \in 1..Len(meshes) : meshes[i].name = "terrain" /\ ~meshes[i].disposed }

\* C20: once the App runs, after any sequence of events exactly one terrain
\* mesh is not disposed and App.terrain refers to it; and after a finish-change
\* event of a terrain-shaping property or a reset, the mesh App.terrain referred
\* to before the event is disposed and App.terrain refers to a mesh built
\* during the event.
C20_TerrainReplaced ==
  appPc = "running" =>
    /\ UndisposedTerrains = {terrain}
    /\ lastEvent.property \in TerrainProperties \cup {"reset"} =>
         /\ lastEvent.terrain \in 1..Len(meshes)
         /\ meshes[lastEvent.terrain].disposed
         /\ terrain > lastEvent.meshCount
         /\ terrain # lastEvent.terrain

\* A reset has followed a finish-change of a terrain-shaping property: the
\* third terrain mesh is in place and the first two are disposed.
C20_Witness ==
  /\ appPc = "running"
  /\ lastEvent.property = "reset"
  /\ Len(meshes) = 6
  /\ terrain = 5
  /\ meshes[1].disposed
  /\ meshes[3].disposed
  /\ ~meshes[5].disposed

\* C21: detachControl undoes what attachControl installed: after it no edge-scroll
\* interval of the input is live, no mousemove listener is registered on the canvas
\* and no observer of the input is left on the scene's pointer observable.
C21_DetachUndoesAttach ==
  cameraEvent.kind = "detachControl" =>
    /\ intervals = {}
    /\ mousemoveListeners = 0
    /\ pointerObservers = 0

\* position within bounds, by the comparisons of the claim.
Within(bounds, position) ==
  /\ FLe(bounds.minX, position.x) /\ FLe(position.x, bounds.maxX)
  /\ FLe(bounds.minZ, position.z) /\ FLe(position.z, bounds.maxZ)

Ordered(bounds) == FLe(bounds.minX, bounds.maxX) /\ FLe(bounds.minZ, bounds.maxZ)

\* The movement the last event asked for, computed from the state before it.
DragAsked ==
  /\ cameraEvent.kind = "pointer"
  /\ cameraEvent.info.type = "POINTERMOVE"
  /\ cameraEvent.in.camera
  /\ cameraEvent.in.isDragging

AskedMovement ==
  IF DragAsked
    THEN DragMovement(cameraEvent.in, cameraEvent.cam,
                      cameraEvent.info.clientX - cameraEvent.in.previousPosition[1],
                      cameraEvent.info.clientY - cameraEvent.in.previousPosition[2])
  ELSE EdgeMovement(cameraEvent.in, cameraEvent.cam)

EdgeAsked ==
  /\ cameraEvent.kind = "tick"
  /\ cameraEvent.in.edgeScrollEnabled
  /\ AskedMovement # Vector3(0, 0, 0)

MoveBlocked ==
  /\ DragAsked \/ EdgeAsked
  /\ ~Within(cameraEvent.in.bounds, VAdd(cameraEvent.cam.target, AskedMovement))

\* C23: if the target lay within the bounds when the input got its camera, it lies
\* within the current bounds (when minX <= maxX and minZ <= maxZ) after any drag
\* moves, edge-scroll ticks and setBounds calls; and a move that would take the
\* target out of the bounds changes neither the camera's position nor its target.
C23_TargetStaysInBounds ==
  /\ rtsInput.camera /\ inBoundsAtAdd /\ Ordered(rtsInput.bounds) =>
       Within(rtsInput.bounds, rtsCamera.target)
  /\ MoveBlocked => rtsCamera = cameraEvent.cam

\* A drag move was refused at the bounds, after the input got its camera in bounds.
C23_Witness ==
  /\ inBoundsAtAdd
  /\ Ordered(rtsInput.bounds)
  /\ IsFinite(rtsInput.bounds.maxX)
  /\ MoveBlocked
  /\ DragAsked

\* C24: _isDragging is true exactly when _previousPosition is non-null; dragging
\* starts only on a pointer-down of button 2 and has ended after a pointer-up of
\* button 2; a pointer-move while not dragging leaves position and target alone.
C24_DragState ==
  /\ rtsInput.isDragging <=> rtsInput.previousPosition # <<>>
  /\ rtsInput.isDragging # cameraEvent.in.isDragging =>
       /\ cameraEvent.kind = "pointer"
       /\ cameraEvent.info.button = 2
       /\ \/ cameraEvent.info.type = "POINTERDOWN" /\ rtsInput.isDragging
          \/ cameraEvent.info.type = "POINTERUP" /\ ~rtsInput.isDragging
  /\ ( /\ cameraEvent.kind = "pointer"
       /\ cameraEvent.info.type = "POINTERUP"
       /\ cameraEvent.info.button = 2 ) => ~rtsInput.isDragging
  /\ ( /\ cameraEvent.kind = "pointer"
       /\ cameraEvent.info.type = "POINTERMOVE"
       /\ ~cameraEvent.in.isDragging ) => rtsCamera = cameraEvent.cam

\* A drag that moved the camera has been ended by a pointer-up of button 2.
C24_Witness ==
  /\ cameraEvent.kind = "pointer"
  /\ cameraEvent.info.type = "POINTERUP"
  /\ cameraEvent.info.button = 2
  /\ cameraEvent.in.isDragging
  /\ rtsCamera # CameraAt(Vector3(0, 0, 0))
  /\ rtsCamera # CameraAt(Vector3(3 * ONE, 0, 0))

\* The fillRect calls of row r, in order.
RectsOfRow(r) == SelectSeq(fillRects, LAMBDA rect : rect.row = r)

\* C22: renderColorMapToCanvas partitions the canvas: the bands of a row lie side by
\* side from x = 0 to canvas.width, each as wide as its share of the row's widths,
\* and the rows lie one under the other from y = 0 to canvas.height, each as high
\* as its share of the heights, without gap or overlap.
C22_BandsCoverCanvas ==
  canvasPc = "done" =>
    /\ \A r \in 1..Len(colorMapConfig) :
         LET rects == RectsOfRow(r)
         IN /\ Len(rects) = Len(colorMapConfig[r].cols)
            /\ rects[1].x = 0
            /\ \A k \in 1..(Len(rects) - 1) :
                 rects[k + 1].x = rects[k].x + rects[k].w
            /\ rects[Len(rects)].x + rects[Len(rects)].w = canvas.width
            /\ \A k \in 1..Len(rects) :
                 /\ rects[k].y = rects[1].y
                 /\ rects[k].h = rects[1].h
            /\ rects[1].y = IF r = 1 THEN 0
                            ELSE RectsOfRow(r - 1)[1].y + RectsOfRow(r - 1)[1].h
    /\ LET last == RectsOfRow(Len(colorMapConfig))[1]
       IN last.y + last.h = canvas.height

Defined(k, v) ==
  IF k = "lightDirection" THEN v[1] # Undefined /\ v[2] # Undefined ELSE v # Undefined

\* C26: after startup every field of the settings has a defined value: with no
\* stored item the defaults are used and stored; with an item that does not parse
\* the item is removed and the settings are the defaults; with one that parses
\* each field the stored object lacks has its default.
C26_SettingsDefined ==
  settingsPc = "loaded" =>
    /\ \A k \in DOMAIN DefaultsOf(settingsRevision) : Defined(k, moduleSettings[k])
    /\ itemAtLoad.kind = "absent" =>
         /\ moduleSettings = DefaultsOf(settingsRevision)
         /\ storageItem = JsonStringify(DefaultsOf(settingsRevision))
    /\ itemAtLoad.kind = "text" =>
         /\ moduleSettings = DefaultsOf(settingsRevision)
         /\ storageItem.kind = "absent"
    /\ itemAtLoad.kind = "json" =>
         \A k \in DOMAIN DefaultsOf(settingsRevision) \ DOMAIN itemAtLoad.object :
           moduleSettings[k] = DefaultsOf(settingsRevision)[k]

\* C25: after every handled finish-change event and after every reset the stored
\* item is the JSON serialisation of the current settings; after a reset the
\* settings are defaultSettings and the stored item is their serialisation.
C25_StoredIsSerialisedSettings ==
  /\ lastEvent.property \notin {"none", "init"} =>
       storedSettings = JsonOf(appSettings)
  /\ lastEvent.property = "reset" =>
       /\ appSettings = AppDefaultSettings
       /\ storedSettings = JsonOf(AppDefaultSettings)

\* A finish-change event was handled while the stored item differed from the
\* settings before it: the session started without a usable item.
C25_Witness ==
  /\ lastEvent.property \in GuiProperties
  /\ appSettings # AppDefaultSettings
  /\ storedSettings = JsonOf(appSettings)

\* C27: after init and after every handled finish-change event or reset the height
\* range of the plugin is (0, settings.terrainHeight).
C27_HeightRangeIsTerrainHeight ==
  appPc = "running" => heightRange = <<0, appSettings.terrainHeight>>

\* The terrain height was changed in the GUI to a value other than the default.
C27_Witness ==
  /\ lastEvent.property = "terrainHeight"
  /\ heightRange = <<0, appSettings.terrainHeight>>
  /\ appSettings.terrainHeight # AppDefaultSettings.terrainHeight

\* C28: from construction onward isEnabled is the value last passed to _enable;
\* prepareDefines writes isEnabled to the define and bindForSubMesh updates the
\* uniforms exactly when isEnabled; assigning isEnabled its current value changes
\* nothing and marks no define dirty.
C28_IsEnabledFollowsEnable ==
  mapPluginPc = "constructed" =>
    /\ mapPlugin.isEnabled = enableCalls[Len(enableCalls)]
    /\ mapPluginEvent.kind = "prepareDefines" => definesWritten = <<mapPlugin.isEnabled>>
    /\ mapPluginEvent.kind = "bindForSubMesh" =>
         (uniformUpdates # mapPluginEvent.before.uniformUpdates) = mapPlugin.isEnabled
    /\ ( /\ mapPluginEvent.kind = "isEnabled"
         /\ mapPluginEvent.argument = mapPluginEvent.before.plugin.isEnabled ) =>
         MapPluginState = mapPluginEvent.before

FinishCalls == Len(SelectSeq(xyCalls, LAMBDA c : c = "$onFinishChange"))

\* C29: the window's mousemove and mouseup listeners are registered only between
\* a mousedown on the handle and the next mouseup, at most once each; a drag ends
\* with exactly one $onFinishChange, after all $onChange calls of the drag; and a
\* mouse move outside a drag does not change the value.
C29_ListenersOnlyWhileDragging ==
  /\ Registered(windowListeners, "onMouseMove") = (IF xyDown THEN 1 ELSE 0)
  /\ Registered(windowListeners, "onMouseUp") = (IF xyDown THEN 1 ELSE 0)
  /\ xyDown => FinishCalls = 0
  /\ (~xyDown /\ xyEvent.type = "mouseup" /\ xyEvent.before.down) =>
       /\ FinishCalls = 1
       /\ xyCalls[Len(xyCalls)] = "$onFinishChange"
  /\ (xyEvent.type = "mousemove" /\ ~xyEvent.before.down) =>
       /\ xyValue = xyEvent.before.value
       /\ xyCalls = xyEvent.before.calls

\* A drag in which the mouse moved has been ended by a mouseup.
C29_Witness ==
  /\ xyEvent.type = "mouseup"
  /\ xyEvent.before.down
  /\ Len(xyCalls) >= 2
  /\ xyValue # AppDefaultSettings.lightDirection

RECURSIVE IsPowerOfTwo(_)
IsPowerOfTwo(n) == n = 1 \/ (n > 1 /\ n % 2 = 0 /\ IsPowerOfTwo(n \div 2))

\* The number of doublings from 1 to the power of two n.
RECURSIVE Log2(_)
Log2(n) == IF n <= 1 THEN 0 ELSE 1 + Log2(n \div 2)

\* max(2, min(value, max)) of the call in progress.
PowFloor ==
  LET least == IF powArgs.value < powArgs.max THEN powArgs.value ELSE powArgs.max
  IN IF least < 2 THEN 2 ELSE least

\* C30: for max a power of two >= 2 and value >= 0, nextPowerOfTwo(value, max)
\* ends after at most log2(max) turns of its loop and returns the smallest power
\* of two that is >= max(2, min(value, max)); the result is at most max, and with
\* the default max it is >= value for every value <= 2048.
C30_NextPowerOfTwo ==
  /\ powPc # "idle" => powTurns < Log2(powArgs.max)
  /\ powPc = "returned" =>
       /\ IsPowerOfTwo(powResult)
       /\ powResult >= PowFloor
       /\ \A n \in PowFloor..(powResult - 1) : ~IsPowerOfTwo(n)
       /\ powResult <= powArgs.max
       /\ powArgs.max = MaxHeightMapSide =>
            /\ powResult = nextPowerOfTwo(powArgs.value)
            /\ powArgs.value <= MaxHeightMapSide => powResult >= powArgs.value

\* A call whose loop ran several times has returned a power of two above its value.
C30_Witness ==
  /\ powPc = "returned"
  /\ powTurns >= 3
  /\ powResult > powArgs.value
  /\ powArgs.value > 2

\* The step-by-step run and the function agree (a check of the model).
StepsAgreeWithFunction ==
  Finished => Outcome = NoiseOutcome(width, height, config, aleaThrows, noiseNaN)

====
